---- MODULE Spec2Model ----
(***************************************************************************)
(* Model of the structured-data core of backend/structured_data_pipeline.py *)
(* (SchemaAnalyzer, DatabaseDecisionEngine, SchemaInferrer).                *)
(*                                                                         *)
(* A parsed JSON value is a record [t, s, items, fields]:                   *)
(*   t      - the Python type name (type(v).__name__)                       *)
(*   s      - the text of a str value ("" for every other kind)             *)
(*   items  - the elements of a list (<<>> for every other kind)            *)
(*   fields - the key -> value map of a dict (<<>> for every other kind)    *)
(* The code never looks at the numeric value of an int/float/bool, only at  *)
(* its type name, so scalars other than str carry no payload.               *)
(* Python strings are TLA+ strings; endswith/replace/lower/in are computed  *)
(* character by character below.                                            *)
(***************************************************************************)
EXTENDS Integers, Sequences, FiniteSets, TLC

VARIABLES
    data, file_type, metadata,  \* parsed_data, file_type, custom_metadata of an upload
    pc,                         \* the step process_structured_data has completed
    analysis, decision, schema, \* results of steps 2-4
    storage_backend,            \* the local storage_backend of process_structured_data
    result,                     \* the result dict (the keys of steps 3, 6, 9-11)
    sql_result,                 \* what store_in_supabase_sql returned in step 9
    collection,                 \* the documents of the MongoDB collection media_files
    structured_data,            \* the rows of the Supabase table structured_data
    created_indexes,            \* names of the indexes store_in_mongodb created
    mongo_available,            \* db_storage.collection is not None
    write_errors,               \* the writes of steps 10 and 11 the driver itself rejected
    savers,                     \* the callers of save_manifest
    saved,                      \* per file_id, the manifest of the latest applied save
    file_path, pipeline,        \* the file given to route_and_process and its pipeline
    batches_collection,         \* BatchProcessor.batches_collection (Nil: not connected)
    batch_id,                   \* what create_batch returned to the upload handler
    handler_pc,                 \* the step the batch upload handler has completed
    max_concurrent, semaphore,  \* the limit of process_batch_async and its semaphore
    tasks,                      \* the process_with_semaphore coroutines of the batch
    processors,                 \* the five lazily filled fields of the DecisionEngine
    constructions,              \* per pipeline, how many processors were constructed
    batch_status                \* what get_batch_status returned to the handler

input_vars == <<data, file_type, metadata>>
store_vars == <<collection, structured_data, created_indexes, mongo_available, write_errors>>
manifest_vars == <<savers, saved>>
route_vars == <<file_path, pipeline>>
batch_vars == <<batches_collection, batch_id, handler_pc, max_concurrent, semaphore, tasks,
                processors, constructions, batch_status>>

vars == <<input_vars, pc, analysis, decision, schema, storage_backend, result, sql_result,
          store_vars, manifest_vars, route_vars, batch_vars>>

(***************************************************************************)
(* Bounds of the model and constants of the program                        *)
(***************************************************************************)
\* longest array of objects drawn as input
MaxObjs == 2
\* deepest chain of nested single-key objects drawn as input
MaxNest == 4
\* calls of save_manifest each caller makes
MaxSaves == 2
\* data[:100] in _analyze_array
ElementTypeSample == 100
\* data[:10] in _analyze_array_of_objects
ObjectDepthSample == 10
\* obj[:10] in _calculate_nesting_depth
ListDepthSample == 10
\* data[:10] in _infer_tables_from_json_array
NestedFieldSample == 10
\* data[:50] in _detect_relationships
RelationshipSample == 50
\* array_length > 10000 in decide
LargeDatasetThreshold == 10000

(***************************************************************************)
(* Generic helpers                                                         *)
(***************************************************************************)
MaxOf(S) == CHOOSE m \in S : \A x \in S : x <= m

Take(seq, n) == SubSeq(seq, 1, IF Len(seq) < n THEN Len(seq) ELSE n)

RECURSIVE SetToSeq(_)
\* iteration over a Python set / dict: some fixed order without repetition
SetToSeq(S) ==
    IF S = {} THEN <<>>
    ELSE LET x == CHOOSE y \in S : TRUE IN <<x>> \o SetToSeq(S \ {x})

RECURSIVE SumSeq(_)
SumSeq(q) == IF q = <<>> THEN 0 ELSE Head(q) + SumSeq(Tail(q))

RECURSIVE Flatten(_)
Flatten(qq) == IF qq = <<>> THEN <<>> ELSE Head(qq) \o Flatten(Tail(qq))

(***************************************************************************)
(* Python str operations                                                   *)
(***************************************************************************)
\* str.endswith
EndsWith(str, suffix) ==
    /\ Len(str) >= Len(suffix)
    /\ SubSeq(str, Len(str) - Len(suffix) + 1, Len(str)) = suffix

RECURSIVE Replace(_, _, _)
\* str.replace(old, new): every non-overlapping occurrence, left to right
Replace(str, old, new) ==
    IF Len(str) < Len(old) THEN str
    ELSE IF SubSeq(str, 1, Len(old)) = old
         THEN new \o Replace(SubSeq(str, Len(old) + 1, Len(str)), old, new)
         ELSE SubSeq(str, 1, 1) \o Replace(SubSeq(str, 2, Len(str)), old, new)

\* `sub in str`
Contains(str, sub) ==
    \E i \in 1..(Len(str) - Len(sub) + 1) : SubSeq(str, i, i + Len(sub) - 1) = sub

UpperCase == <<"A","B","C","D","E","F","G","H","I","J","K","L","M",
               "N","O","P","Q","R","S","T","U","V","W","X","Y","Z">>
LowerCase == <<"a","b","c","d","e","f","g","h","i","j","k","l","m",
               "n","o","p","q","r","s","t","u","v","w","x","y","z">>

LowerChar(c) ==
    IF \E i \in 1..Len(UpperCase) : UpperCase[i] = c
    THEN LowerCase[CHOOSE i \in 1..Len(UpperCase) : UpperCase[i] = c]
    ELSE c

RECURSIVE Lower(_)
\* str.lower
Lower(str) ==
    IF Len(str) = 0 THEN str
    ELSE LowerChar(SubSeq(str, 1, 1)) \o Lower(SubSeq(str, 2, Len(str)))

(***************************************************************************)
(* Value model                                                             *)
(***************************************************************************)
Scalar(t) == [t |-> t, s |-> "", items |-> <<>>, fields |-> <<>>]
Str(text) == [t |-> "str", s |-> text, items |-> <<>>, fields |-> <<>>]
List(elems) == [t |-> "list", s |-> "", items |-> elems, fields |-> <<>>]
Dict(f) == [t |-> "dict", s |-> "", items |-> <<>>, fields |-> f]

None == Scalar("NoneType")
IntV == Scalar("int")

\* an unset variable, and None where a dict or a document is expected
Nil == [nil |-> TRUE]

\* isinstance(v, dict) / isinstance(v, list)
IsDict(v) == v.t = "dict"
IsList(v) == v.t = "list"
\* dict.keys()
Keys(v) == DOMAIN v.fields


\* dict.get(key, default)
Get(d, key, default) == IF key \in DOMAIN d THEN d[key] ELSE default

(***************************************************************************)
(* SchemaAnalyzer                                                          *)
(***************************************************************************)
RECURSIVE calculate_nesting_depth(_, _)
calculate_nesting_depth(obj, current_depth) ==
    IF IsDict(obj)
    THEN IF Keys(obj) = {} THEN current_depth
         ELSE MaxOf({calculate_nesting_depth(obj.fields[k], current_depth + 1) :
                        k \in Keys(obj)})
    ELSE IF IsList(obj)
    THEN IF Len(obj.items) = 0 THEN current_depth
         ELSE LET sample == Take(obj.items, ListDepthSample)
              IN MaxOf({calculate_nesting_depth(sample[i], current_depth + 1) :
                           i \in 1..Len(sample)})
    ELSE current_depth

\* the inferred_table of a relationship candidate
strip_id_suffix(field) == Replace(Replace(Replace(field, "_id", ""), "Id", ""), "ID", "")

\* data: the sequence of dict values; all_keys: set of keys
detect_relationships(objs, all_keys) ==
    LET id_fields == {k \in all_keys :
                         EndsWith(k, "_id") \/ EndsWith(k, "Id") \/ EndsWith(k, "ID") \/ k = "id"}
        sample == Take(objs, RelationshipSample)
        sample_idx(field) == {i \in 1..Len(sample) : field \in Keys(sample[i])}
        value_types(field) == {sample[i].fields[field].t : i \in sample_idx(field)} \ {"NoneType"}
        emitted == {k \in id_fields : sample_idx(k) # {} /\ Cardinality(value_types(k)) = 1}
        candidate(field) == [field |-> field,
                             type |-> CHOOSE t \in value_types(field) : TRUE,
                             likely_foreign_key |-> TRUE,
                             inferred_table |-> strip_id_suffix(field)]
        order == SetToSeq(emitted)
    IN [i \in 1..Len(order) |-> candidate(order[i])]

\* is_tabular without the test on nested_fields
tabular_drops_nested(is_uniform, nested_fields) == is_uniform

\* 'is_tabular': is_uniform and len(nested_fields) == 0
tabular(is_uniform, nested_fields) == is_uniform /\ Cardinality(nested_fields) = 0

\* required_fields with the count compared against 0 instead of the total
required_any_count(key_counts, total_objects) ==
    {k \in DOMAIN key_counts : key_counts[k] > 0}

\* required_fields: the keys counted in every object
required_keys(key_counts, total_objects) ==
    {k \in DOMAIN key_counts : key_counts[k] = total_objects}

\* optional_fields
optional_keys(key_counts, total_objects) ==
    {k \in DOMAIN key_counts : key_counts[k] < total_objects}

\* objs: non-empty sequence; the loops skip what is not a dict
analyze_array_of_objects(objs) ==
    LET idx == {i \in 1..Len(objs) : IsDict(objs[i])}
        all_keys == UNION {Keys(objs[i]) : i \in idx}
        key_counts == [k \in all_keys |-> Cardinality({i \in idx : k \in Keys(objs[i])})]
        key_types == [k \in all_keys |->
                         {objs[i].fields[k].t : i \in {j \in idx : k \in Keys(objs[j])}}]
        total_objects == Len(objs)
        first_keys == Keys(objs[1])
        is_uniform == \A i \in idx : Keys(objs[i]) = first_keys
        required_fields == required_keys(key_counts, total_objects)
        optional_fields == optional_keys(key_counts, total_objects)
        nested_fields == {k \in all_keys : "dict" \in key_types[k] \/ "list" \in key_types[k]}
        sample == Take(objs, ObjectDepthSample)
        max_depth == MaxOf({0} \cup {calculate_nesting_depth(sample[i], 0) : i \in 1..Len(sample)})
    IN [is_tabular |-> tabular(is_uniform, nested_fields),
        is_uniform |-> is_uniform,
        is_nested |-> Cardinality(nested_fields) > 0,
        nesting_depth |-> max_depth,
        all_keys |-> all_keys,
        required_fields |-> required_fields,
        optional_fields |-> optional_fields,
        nested_fields |-> nested_fields,
        key_types |-> key_types,
        relationship_candidates |-> detect_relationships(objs, all_keys),
        has_arrays_in_objects |-> \E k \in all_keys : "list" \in key_types[k]]

\* any(isinstance(item, dict) for item in data)
contains_some_object(items) == \E i \in 1..Len(items) : IsDict(items[i])

\* all(isinstance(item, dict) for item in data)
contains_only_objects(items) == \A i \in 1..Len(items) : IsDict(items[i])

analyze_array(v) ==
    IF Len(v.items) = 0
    THEN [is_tabular |-> FALSE, is_uniform |-> FALSE, is_nested |-> FALSE, array_length |-> 0]
    ELSE LET sample == Take(v.items, ElementTypeSample)
             seen == {sample[i].t : i \in 1..Len(sample)}
             sampled == [array_length |-> Len(v.items),
                        element_types |-> [t \in seen |->
                            Cardinality({i \in 1..Len(sample) : sample[i].t = t})]]
         IN IF contains_only_objects(v.items)
            THEN analyze_array_of_objects(v.items) @@ sampled
            ELSE [is_nested |-> \E i \in 1..Len(v.items) :
                                   IsDict(v.items[i]) \/ IsList(v.items[i])] @@ sampled

analyze_object(v) ==
    LET nested_keys == {k \in Keys(v) : IsDict(v.fields[k]) \/ IsList(v.fields[k])}
        depth == calculate_nesting_depth(v, 0)
    IN [keys |-> Keys(v),
        key_types |-> [k \in Keys(v) |-> v.fields[k].t],
        nested_keys |-> nested_keys,
        is_nested |-> Cardinality(nested_keys) > 0,
        nesting_depth |-> depth,
        is_hierarchical |-> depth > 2]

\* the entries _apply_metadata_hints adds to the analysis; md is the metadata dict
apply_metadata_hints(md) ==
    LET hints == Get(md, "hints", <<>>)
        description == Lower(Get(md, "description", ""))
        tags == Get(md, "tags", {})
        e1 == IF Contains(description, "schema_changes") \/ Contains(description, "evolving")
              THEN [schema_evolution_expected |-> TRUE] ELSE <<>>
        e2 == IF Contains(description, "relational") \/ "sql" \in tags
              THEN [prefer_sql |-> TRUE] ELSE <<>>
        e3 == IF "nosql" \in tags \/ Contains(description, "flexible")
              THEN [prefer_nosql |-> TRUE] ELSE <<>>
        e4 == IF "optimize_by" \in DOMAIN hints
              THEN [optimization_fields |-> hints["optimize_by"]] ELSE <<>>
        e5 == IF "query_fields" \in DOMAIN hints
              THEN [query_fields |-> hints["query_fields"]] ELSE <<>>
    IN e1 @@ e2 @@ e3 @@ e4 @@ e5

\* m: [present, dict]; `if metadata:` is false for None and for {}
analyze_json_structure(v, m) ==
    LET base == [data_type |-> v.t,
                 is_array |-> IsList(v),
                 is_object |-> IsDict(v),
                 is_primitive |-> v.t \in {"str", "int", "float", "bool", "NoneType"},
                 is_tabular |-> FALSE,
                 is_uniform |-> FALSE,
                 is_nested |-> FALSE,
                 is_hierarchical |-> FALSE,
                 nesting_depth |-> 0,
                 has_arrays_in_objects |-> FALSE,
                 has_repeated_structures |-> FALSE,
                 relationship_candidates |-> <<>>]
        shaped == IF IsList(v) THEN analyze_array(v) @@ base
                  ELSE IF IsDict(v) THEN analyze_object(v) @@ base
                  ELSE base
    IN IF m.present /\ DOMAIN m.dict # {}
       THEN apply_metadata_hints(m.dict) @@ [metadata_hints |-> m.dict] @@ shaped
       ELSE shaped


(***************************************************************************)
(* DatabaseDecisionEngine                                                  *)
(***************************************************************************)
\* Python truthiness of analysis.get(key) for the boolean / list entries
Truthy(a, key) ==
    IF key \notin DOMAIN a THEN FALSE
    ELSE IF key = "relationship_candidates" THEN Len(a[key]) > 0
    ELSE a[key]

Score(sql, nosql, reasons) == [sql |-> sql, nosql |-> nosql, reasons |-> reasons]

\* Factor 1: Structure consistency
Factor1(a) ==
    IF Truthy(a, "is_uniform") THEN Score(3, 0, <<"Uniform structure favors SQL">>)
    ELSE Score(0, 2, <<"Non-uniform structure favors NoSQL">>)

\* Factor 2: Tabular nature
Factor2(a) ==
    IF Truthy(a, "is_tabular") THEN Score(4, 0, <<"Tabular data is ideal for SQL">>)
    ELSE Score(0, 0, <<>>)

\* Factor 3: Nesting depth
Factor3(a) ==
    LET nesting_depth == Get(a, "nesting_depth", 0)
    IN IF nesting_depth = 0 THEN Score(2, 0, <<"Flat structure suits SQL">>)
       ELSE IF nesting_depth <= 2 THEN Score(1, 1, <<"Shallow nesting works for both">>)
       ELSE Score(0, 3, <<"Deep nesting favors NoSQL">>)

\* Factor 4: Relationships
Factor4(a) ==
    IF Truthy(a, "relationship_candidates")
    THEN Score(2, 0, <<"Detected relationships favor SQL">>)
    ELSE Score(0, 0, <<>>)

\* Factor 5: Arrays in objects
Factor5(a) ==
    IF Truthy(a, "has_arrays_in_objects")
    THEN Score(0, 2, <<"Arrays in objects complicate SQL, favor NoSQL">>)
    ELSE Score(0, 0, <<>>)

\* Factor 6 with a drifted weight
Factor6_weight5(a) ==
    IF Truthy(a, "schema_evolution_expected")
    THEN Score(0, 5, <<"Expected schema changes favor NoSQL">>)
    ELSE Score(0, 0, <<>>)

\* Factor 6: Schema evolution expectation
Factor6(a) ==
    IF Truthy(a, "schema_evolution_expected")
    THEN Score(0, 3, <<"Expected schema changes favor NoSQL">>)
    ELSE Score(0, 0, <<>>)

\* Factor 7 with two independent ifs instead of if / elif
Factor7_independent(a) ==
    LET p == IF Truthy(a, "prefer_sql") THEN Score(5, 0, <<"User preference for SQL">>)
             ELSE Score(0, 0, <<>>)
        q == IF Truthy(a, "prefer_nosql") THEN Score(0, 5, <<"User preference for NoSQL">>)
             ELSE Score(0, 0, <<>>)
    IN Score(p.sql + q.sql, p.nosql + q.nosql, p.reasons \o q.reasons)

\* Factor 7: User preferences via metadata
Factor7(a) ==
    IF Truthy(a, "prefer_sql") THEN Score(5, 0, <<"User preference for SQL">>)
    ELSE IF Truthy(a, "prefer_nosql") THEN Score(0, 5, <<"User preference for NoSQL">>)
    ELSE Score(0, 0, <<>>)

\* Factor 8: Data size (array length)
Factor8(a) ==
    IF Get(a, "array_length", 0) > LargeDatasetThreshold
    THEN Score(0, 1, <<"Large dataset may benefit from NoSQL scalability">>)
    ELSE Score(0, 0, <<>>)

\* abs()
Abs(n) == IF n < 0 THEN -n ELSE n

\* the comparison with >= instead of >
choose_backend_ge(score_sql, score_nosql) == IF score_sql >= score_nosql THEN "sql" ELSE "nosql"

\* the backend chosen from the two scores
choose_backend(score_sql, score_nosql) == IF score_sql > score_nosql THEN "sql" ELSE "nosql"

decide(a) ==
    LET factors == <<Factor1(a), Factor2(a), Factor3(a), Factor4(a),
                     Factor5(a), Factor6(a), Factor7(a), Factor8(a)>>
        score_sql == SumSeq([i \in 1..Len(factors) |-> factors[i].sql])
        score_nosql == SumSeq([i \in 1..Len(factors) |-> factors[i].nosql])
    IN [decision |-> choose_backend(score_sql, score_nosql),
        sql_score |-> score_sql,
        nosql_score |-> score_nosql,
        confidence |-> Abs(score_sql - score_nosql),
        reasons |-> Flatten([i \in 1..Len(factors) |-> factors[i].reasons])]


(***************************************************************************)
(* SchemaInferrer                                                          *)
(***************************************************************************)
python_type_to_sql_type(python_type) ==
    CASE python_type = "str" -> "text"
      [] python_type = "int" -> "integer"
      [] python_type = "float" -> "real"
      [] python_type = "bool" -> "boolean"
      [] python_type = "NoneType" -> "text"
      [] python_type = "dict" -> "jsonb"
      [] python_type = "list" -> "jsonb"
      [] OTHER -> "text"

\* types: the set of type names observed for a key
resolve_primary_type(types) ==
    IF types = {} THEN "text"
    ELSE IF Cardinality(types) = 1 THEN python_type_to_sql_type(CHOOSE t \in types : TRUE)
    ELSE IF "str" \in types THEN "text"
    ELSE IF "float" \in types THEN "real"
    ELSE IF "int" \in types THEN "integer"
    ELSE "text"

\* a field definition; a key the Python dict lacks reads as FALSE (field.get(key))
FieldDef(name, type, required, nullable, pk, fk, auto) ==
    [name |-> name, type |-> type, required |-> required, nullable |-> nullable,
     is_primary_key |-> pk, is_foreign_key |-> fk, auto_increment |-> auto]

Relationship(field, references_table) ==
    [type |-> "many_to_one", field |-> field,
     references_table |-> references_table, references_field |-> "id"]

IndexDef(name, field, type, unique) ==
    [name |-> name, fields |-> <<field>>, type |-> type, unique |-> unique]

common_index_fields == {"email", "username", "created_at", "updated_at", "timestamp", "date"}

suggest_indexes(fields, a) ==
    LET key_index(f) ==
            IF f.is_primary_key
            THEN <<IndexDef("idx_pk_" \o f.name, f.name, "primary", TRUE)>>
            ELSE IF f.is_foreign_key
            THEN <<IndexDef("idx_fk_" \o f.name, f.name, "index", FALSE)>>
            ELSE <<>>
        key_indexes == Flatten([i \in 1..Len(fields) |-> key_index(fields[i])])
        optimization_fields == Get(a, "optimization_fields", <<>>)
        opt_index(o) ==
            IF \E i \in 1..Len(fields) : fields[i].name = o
            THEN <<IndexDef("idx_opt_" \o o, o, "index", FALSE)>>
            ELSE <<>>
        opt_indexes == Flatten([i \in 1..Len(optimization_fields) |->
                                   opt_index(optimization_fields[i])])
        before == key_indexes \o opt_indexes
        \* a common field is indexed once: the indexes appended in this last loop
        \* are on fields of other names, so only `before` and an earlier field of
        \* the same name can already cover it
        covered(i) ==
            \/ \E j \in 1..Len(before) : before[j].fields[1] = fields[i].name
            \/ \E j \in 1..(i - 1) : fields[j].name = fields[i].name
        common_index(i) ==
            IF fields[i].name \in common_index_fields /\ ~covered(i)
            THEN <<IndexDef("idx_" \o fields[i].name, fields[i].name, "index", FALSE)>>
            ELSE <<>>
    IN before \o Flatten([i \in 1..Len(fields) |-> common_index(i)])

\* the reference of a foreign key inferred from a key of the main table
fk_ref_table(key) == Replace(key, "_id", "")

\* the synthetic fields every junction / related table starts with
synthetic_fields(parent_table) ==
    <<FieldDef("id", "integer", FALSE, FALSE, TRUE, FALSE, TRUE),
      FieldDef(parent_table \o "_id", "integer", FALSE, FALSE, FALSE, TRUE, FALSE)>>

\* sample_values: non-empty sequence whose first element is a list
create_related_table_from_array(field_name, sample_values, parent_table) ==
    LET first_list == sample_values[1].items
        first_elem == IF Len(first_list) > 0 THEN first_list[1] ELSE None
        elem_keys == SetToSeq(Keys(first_elem))
        extra == IF Len(sample_values) = 0 THEN <<>>
                 ELSE IF IsDict(first_elem)
                 THEN [i \in 1..Len(elem_keys) |->
                          FieldDef(elem_keys[i],
                                   python_type_to_sql_type(first_elem.fields[elem_keys[i]].t),
                                   FALSE, FALSE, FALSE, FALSE, FALSE)]
                 ELSE <<FieldDef("value", python_type_to_sql_type(first_elem.t),
                                 FALSE, FALSE, FALSE, FALSE, FALSE)>>
    IN [name |-> parent_table \o "_" \o field_name,
        type |-> "junction",
        fields |-> synthetic_fields(parent_table) \o extra,
        indexes |-> <<>>,
        relationships |-> <<Relationship(parent_table \o "_id", parent_table)>>]

\* sample_values: non-empty sequence whose first element is a dict.  The
\* lookup `key in obj` is only defined on the dict samples; the inputs of this
\* model never mix a dict with a None or str value under one key.
create_related_table_from_object(field_name, sample_values, parent_table) ==
    LET dicts == SelectSeq(sample_values, IsDict)
        all_keys == UNION {Keys(dicts[i]) : i \in 1..Len(dicts)}
        order == SetToSeq(all_keys)
        sample_value(key) ==
            dicts[CHOOSE i \in 1..Len(dicts) :
                    /\ key \in Keys(dicts[i])
                    /\ \A j \in 1..(i - 1) : key \notin Keys(dicts[j])].fields[key]
    IN [name |-> field_name,
        type |-> "related",
        fields |-> synthetic_fields(parent_table) \o
                   [i \in 1..Len(order) |->
                       FieldDef(order[i], python_type_to_sql_type(sample_value(order[i]).t),
                                FALSE, FALSE, FALSE, FALSE, FALSE)],
        indexes |-> <<>>,
        relationships |-> <<Relationship(parent_table \o "_id", parent_table)>>]

\* objs: the list elements (data[0] is a dict); a: the analysis
infer_tables_from_json_array(objs, a) ==
    LET all_keys == SetToSeq(Get(a, "all_keys", {}))
        key_types == Get(a, "key_types", <<>>)
        required_fields == Get(a, "required_fields", {})
        nested_fields == Get(a, "nested_fields", {})
        main_keys == SelectSeq(all_keys, LAMBDA k : k \notin nested_fields)
        is_key(k) == k = "id" \/ EndsWith(k, "_id")
        field_def(k) ==
            FieldDef(k, resolve_primary_type(Get(key_types, k, {"str"})),
                     k \in required_fields, k \notin required_fields,
                     is_key(k) /\ k = "id", is_key(k) /\ k # "id", FALSE)
        main_fields == [i \in 1..Len(main_keys) |-> field_def(main_keys[i])]
        fk_fields == SelectSeq(main_fields, LAMBDA f : f.is_foreign_key)
        main_table == [name |-> "main_data",
                       type |-> "primary",
                       fields |-> main_fields,
                       indexes |-> suggest_indexes(main_fields, a),
                       relationships |-> [i \in 1..Len(fk_fields) |->
                           Relationship(fk_fields[i].name, fk_ref_table(fk_fields[i].name))]]
        sample == Take(objs, NestedFieldSample)
        sample_values(nf) ==
            LET present == SelectSeq([i \in 1..Len(sample) |-> i],
                                     LAMBDA i : IsDict(sample[i]) /\ nf \in Keys(sample[i]))
            IN [j \in 1..Len(present) |-> sample[present[j]].fields[nf]]
        related(nf) ==
            LET sv == sample_values(nf)
            IN IF Len(sv) > 0 /\ IsList(sv[1])
               THEN <<create_related_table_from_array(nf, sv, main_table.name)>>
               ELSE IF Len(sv) > 0 /\ IsDict(sv[1])
               THEN <<create_related_table_from_object(nf, sv, main_table.name)>>
               ELSE <<>>
        nested_order == SetToSeq(nested_fields)
    IN <<main_table>> \o Flatten([i \in 1..Len(nested_order) |-> related(nested_order[i])])

infer_fields_from_object(obj) ==
    LET order == SetToSeq(Keys(obj))
    IN [i \in 1..Len(order) |->
           FieldDef(order[i], python_type_to_sql_type(obj.fields[order[i]].t),
                    TRUE, obj.fields[order[i]].t = "NoneType", FALSE, FALSE, FALSE)]

infer_json_schema(v, a) ==
    LET head == [type |-> "json", structure |-> Get(a, "data_type", "NoneType")]
    IN IF IsList(v) /\ Len(v.items) > 0 /\ IsDict(v.items[1])
       THEN [tables |-> infer_tables_from_json_array(v.items, a)] @@ head
       ELSE IF IsDict(v)
       THEN [fields |-> infer_fields_from_object(v)] @@ head
       ELSE head

\* v: the dict parse_csv returns
infer_csv_schema(v) ==
    LET columns == IF "columns" \in Keys(v) THEN v.fields["columns"].items ELSE <<>>
    IN [type |-> "csv",
        tables |-> <<[name |-> "csv_data",
                      type |-> "primary",
                      fields |-> [i \in 1..Len(columns) |->
                          FieldDef(columns[i].s, "text", TRUE, FALSE, FALSE, FALSE, FALSE)]]>>]

\* v: the dict parse_xml returns
infer_xml_schema(v) ==
    [type |-> "xml",
     root_tag |-> IF "root_tag" \in Keys(v) THEN v.fields["root_tag"].s ELSE "root",
     structure |-> "hierarchical"]

\* created_at (the wall clock) is left out of the schema
infer_schema(v, ftype, a) ==
    LET head == [file_type |-> ftype, version |-> "1.0"]
    IN IF ftype = "json" THEN infer_json_schema(v, a) @@ head
       ELSE IF ftype = "csv" THEN infer_csv_schema(v) @@ head
       ELSE IF ftype = "xml" THEN infer_xml_schema(v) @@ head
       ELSE head

\* schema.get('tables', [])
Tables(sch) == Get(sch, "tables", <<>>)

(***************************************************************************)
(* SqlSchemaGenerator                                                      *)
(***************************************************************************)
UpperChar(c) ==
    IF \E i \in 1..Len(LowerCase) : LowerCase[i] = c
    THEN UpperCase[CHOOSE i \in 1..Len(LowerCase) : LowerCase[i] = c]
    ELSE c

RECURSIVE Upper(_)
\* str.upper
Upper(str) ==
    IF Len(str) = 0 THEN str
    ELSE UpperChar(SubSeq(str, 1, 1)) \o Upper(SubSeq(str, 2, Len(str)))

RECURSIVE Join(_, _)
\* sep.join(parts)
Join(sep, parts) ==
    IF Len(parts) = 0 THEN ""
    ELSE IF Len(parts) = 1 THEN parts[1]
    ELSE parts[1] \o sep \o Join(sep, Tail(parts))

\* the keys of type_mapping in _generate_field_definition (each maps to itself)
PostgresTypes == {"INTEGER", "REAL", "TEXT", "BOOLEAN", "JSONB", "TIMESTAMP", "DATE"}

\* no inferred field carries the keys 'unique' or 'default'
generate_field_definition(field) ==
    LET upper == Upper(field.type)
        data_type == IF upper \in PostgresTypes THEN upper ELSE "TEXT"
        definition == IF field.is_primary_key /\ field.auto_increment
                      THEN field.name \o " SERIAL"
                      ELSE field.name \o " " \o data_type
    IN IF field.required /\ ~field.is_primary_key
       THEN definition \o " NOT NULL"
       ELSE definition

\* table_prefix is '' in every call of the pipeline
generate_create_table(table) ==
    LET fields == Get(table, "fields", <<>>)
        field_defs == [i \in 1..Len(fields) |-> generate_field_definition(fields[i])]
        pk == SelectSeq(fields, LAMBDA f : f.is_primary_key)
        primary_keys == [i \in 1..Len(pk) |-> pk[i].name]
        all_defs == IF Len(primary_keys) > 0
                    THEN Append(field_defs, "PRIMARY KEY (" \o Join(", ", primary_keys) \o ")")
                    ELSE field_defs
    IN "CREATE TABLE IF NOT EXISTS " \o table.name \o " (\n    "
           \o Join(",\n    ", all_defs) \o "\n);"

generate_create_index(index, table_name) ==
    "CREATE " \o (IF index.unique THEN "UNIQUE " ELSE "") \o "INDEX IF NOT EXISTS "
        \o index.name \o " ON " \o table_name \o " (" \o Join(", ", index.fields) \o ");"

generate_foreign_key(relationship, table_name) ==
    "ALTER TABLE " \o table_name \o " \nADD CONSTRAINT fk_" \o table_name \o "_"
        \o relationship.field \o " \nFOREIGN KEY (" \o relationship.field \o ") REFERENCES "
        \o relationship.references_table \o "(" \o relationship.references_field \o ");"

\* the statement list with the index statements ahead of the tables
order_statements_indexes_first(creates, indexes, foreign_keys) ==
    indexes \o creates \o foreign_keys

\* sql_statements after the three loops: tables, then indexes, then foreign keys
order_statements(creates, indexes, foreign_keys) ==
    creates \o indexes \o foreign_keys

generate_sql_schema(sch) ==
    LET tables == Tables(sch)
        creates == [i \in 1..Len(tables) |->
                       [type |-> "create_table",
                        table |-> tables[i].name,
                        sql |-> generate_create_table(tables[i])]]
        index_stmts(t) ==
            LET idx == SelectSeq(Get(t, "indexes", <<>>), LAMBDA x : x.type # "primary")
            IN [j \in 1..Len(idx) |->
                   [type |-> "create_index",
                    table |-> t.name,
                    index |-> idx[j].name,
                    sql |-> generate_create_index(idx[j], t.name)]]
        fk_stmts(t) ==
            LET rels == SelectSeq(Get(t, "relationships", <<>>),
                                  LAMBDA r : r.type \in {"many_to_one", "one_to_one"})
            IN [j \in 1..Len(rels) |->
                   [type |-> "add_foreign_key",
                    table |-> t.name,
                    sql |-> generate_foreign_key(rels[j], t.name)]]
        sql_statements ==
            order_statements(creates,
                             Flatten([i \in 1..Len(tables) |-> index_stmts(tables[i])]),
                             Flatten([i \in 1..Len(tables) |-> fk_stmts(tables[i])]))
    IN [sql_statements |-> sql_statements,
        execution_order |-> [i \in 1..Len(sql_statements) |-> sql_statements[i].sql],
        table_count |-> Len(tables)]

(***************************************************************************)
(* NoSqlSchemaGenerator                                                    *)
(***************************************************************************)
\* SchemaInferrer._python_type_to_nosql_type
python_type_to_nosql_type(python_type) ==
    CASE python_type = "str" -> "string"
      [] python_type = "int" -> "number"
      [] python_type = "float" -> "number"
      [] python_type = "bool" -> "boolean"
      [] python_type = "NoneType" -> "null"
      [] python_type = "dict" -> "object"
      [] python_type = "list" -> "array"
      [] OTHER -> "string"

sql_type_to_bson_type(sql_type) ==
    LET t == Lower(sql_type)
    IN CASE t = "integer" -> "int"
         [] t = "real" -> "double"
         [] t = "text" -> "string"
         [] t = "boolean" -> "bool"
         [] t = "jsonb" -> "object"
         [] t = "timestamp" -> "date"
         [] t = "date" -> "date"
         [] OTHER -> "string"

\* properties is a dict: a later field of the same name overwrites an earlier one
build_document_structure(sch) ==
    LET tables == Tables(sch)
        fields == IF Len(tables) > 0 THEN Get(tables[1], "fields", <<>>) ELSE <<>>
        names == {fields[i].name : i \in 1..Len(fields)}
        last(n) == fields[MaxOf({i \in 1..Len(fields) : fields[i].name = n})]
    IN [bsonType |-> "object",
        properties |-> [n \in names |->
            [bsonType |-> sql_type_to_bson_type(last(n).type),
             description |-> "Field " \o n]]]

\* an index definition per key field of the primary table
generate_indexes_on_keys(sch) ==
    LET tables == Tables(sch)
        fields == IF Len(tables) > 0 THEN Get(tables[1], "fields", <<>>) ELSE <<>>
        keys == SelectSeq(fields, LAMBDA f : f.is_primary_key \/ f.is_foreign_key)
    IN [i \in 1..Len(keys) |->
           [name |-> "idx_" \o keys[i].name,
            keys |-> <<keys[i].name>>,
            unique |-> keys[i].is_primary_key]]

\* _generate_indexes: no index on data fields
generate_indexes(sch) == <<>>

generate_validation_rules(sch) ==
    [k \in {"$jsonSchema"} |->
        [bsonType |-> "object",
         required |-> <<"file_id", "data", "created_at">>,
         properties |->
            [file_id |-> [bsonType |-> "string",
                          description |-> "Unique file identifier"],
             data |-> [bsonType |-> <<"object", "array">>,
                       description |-> "Structured data content"],
             created_at |-> [bsonType |-> "string",
                             description |-> "Creation timestamp"]]]]

\* collection_name is 'structured_data' in every call of the pipeline
generate_nosql_schema(sch) ==
    [collection_name |-> "structured_data",
     schema_version |-> Get(sch, "version", "1.0"),
     document_structure |-> IF Get(sch, "type", "") = "json"
                            THEN build_document_structure(sch)
                            ELSE <<>>,
     indexes |-> generate_indexes(sch),
     validation_rules |-> generate_validation_rules(sch)]

(***************************************************************************)
(* The MongoDB collection media_files: a sequence of documents, each a     *)
(* function from field names to values.  The collection carries the unique *)
(* index on file_id that MongoDBStorage._create_indexes asks for; every    *)
(* call of the driver is one atomic operation on the collection.           *)
(***************************************************************************)
MinOf(S) == CHOOSE m \in S : \A x \in S : m <= x

\* the positions of the documents the filter {'file_id': file_id} matches
matching(coll, file_id) == {i \in 1..Len(coll) : coll[i].file_id = file_id}

\* collection.find_one({'file_id': file_id}); Nil stands for None
find_one(coll, file_id) ==
    IF matching(coll, file_id) = {} THEN Nil
    ELSE coll[MinOf(matching(coll, file_id))]

\* $set that descends into a stored sub-document and overwrites only its storage_backend
apply_set_inside(doc, fields) ==
    [k \in DOMAIN fields \cup DOMAIN doc |->
        IF k \in DOMAIN fields
        THEN IF k = "schema_manifest" /\ k \in DOMAIN doc
             THEN [doc[k] EXCEPT !.storage_backend = fields[k].storage_backend]
             ELSE fields[k]
        ELSE doc[k]]

\* {'$set': fields}: each named field is replaced as a whole, the others are kept
apply_set(doc, fields) ==
    [k \in DOMAIN fields \cup DOMAIN doc |->
        IF k \in DOMAIN fields THEN fields[k] ELSE doc[k]]

\* an update that never matches and so always inserts
update_one_insert_only(coll, file_id, fields) ==
    Append(coll, apply_set([k \in {"file_id"} |-> file_id], fields))

\* collection.update_one({'file_id': file_id}, {'$set': fields}, upsert=True)
update_one(coll, file_id, fields) ==
    IF matching(coll, file_id) = {}
    THEN Append(coll, apply_set([k \in {"file_id"} |-> file_id], fields))
    ELSE [coll EXCEPT ![MinOf(matching(coll, file_id))] =
              apply_set(coll[MinOf(matching(coll, file_id))], fields)]

\* MongoDBStorage.insert_media; write_ok: the driver call does not raise.
\* insert_one on an existing file_id raises DuplicateKeyError (unique index).
insert_media(coll, available, write_ok, file_id, md, s3_info, embedding_info) ==
    IF ~available
    THEN [collection |-> coll,
          result |-> [success |-> FALSE, error |-> "MongoDB not connected"]]
    ELSE IF ~write_ok
    THEN [collection |-> coll,
          result |-> [success |-> FALSE, error |-> "write failed"]]
    ELSE IF matching(coll, file_id) # {}
    THEN [collection |-> coll,
          result |-> [success |-> FALSE, error |-> "duplicate key"]]
    ELSE [collection |-> Append(coll,
              [file_id |-> file_id,
               metadata |-> md,
               s3_info |-> s3_info,
               embedding_info |-> embedding_info,
               user_id |-> IF "custom" \in DOMAIN md
                           THEN Get(md["custom"], "user_id", Nil) ELSE Nil]),
          result |-> [success |-> TRUE, file_id |-> file_id]]

(***************************************************************************)
(* SchemaManifestManager                                                   *)
(***************************************************************************)
\* the manifest save_manifest builds; created_at (the wall clock) is left out
build_manifest(file_id, sch, backend, md) ==
    [file_id |-> file_id,
     schema_version |-> Get(sch, "version", "1.0"),
     storage_backend |-> backend,
     schema |-> sch,
     metadata |-> md,
     history |-> <<>>]

\* the guarded write of save_manifest; updated_at (the wall clock) is left out
write_manifest(coll, available, write_ok, manifest) ==
    IF available
    THEN IF write_ok
         THEN [collection |-> update_one(coll, manifest.file_id,
                                         [schema_manifest |-> manifest]),
               result |-> [success |-> TRUE, manifest_id |-> manifest.file_id]]
         ELSE [collection |-> coll,
               result |-> [success |-> FALSE, error |-> "write failed"]]
    ELSE [collection |-> coll,
          result |-> [success |-> FALSE, error |-> "Database not available"]]

\* save_manifest without its try / except: a failed write propagates
save_manifest_unguarded(coll, available, write_ok, file_id, sch, backend, md) ==
    IF available /\ ~write_ok
    THEN [collection |-> coll, result |-> [raised |-> "write failed"]]
    ELSE write_manifest(coll, available, write_ok, build_manifest(file_id, sch, backend, md))

save_manifest(coll, available, write_ok, file_id, sch, backend, md) ==
    write_manifest(coll, available, write_ok, build_manifest(file_id, sch, backend, md))

\* Nil stands for None
get_manifest(coll, available, file_id) ==
    IF available /\ find_one(coll, file_id) # Nil
    THEN Get(find_one(coll, file_id), "schema_manifest", Nil)
    ELSE Nil

(***************************************************************************)
(* StructuredDataProcessor: storage                                        *)
(***************************************************************************)
\* batch_size in store_in_supabase_sql
InsertBatchSize == 100

\* the rows of one insert; user_id is a non-empty string
sql_records(file_id, user_id, items, first_index) ==
    [i \in 1..Len(items) |->
        [file_id |-> file_id,
         user_id |-> user_id,
         row_index |-> first_index + i - 1,
         data |-> IF IsDict(items[i]) THEN items[i]
                  ELSE Dict([k \in {"value"} |-> items[i]])]]

sql_fallback(error) == [success |-> FALSE, error |-> error, fallback_to_nosql |-> TRUE]

\* rows: the table structured_data; client: get_supabase_client() returned a
\* client; failing_batch: the insert that raises (0: none does).  The DDL sent
\* over the direct PostgreSQL connection changes no row and its errors are
\* swallowed, so it is left out.  created_at (the wall clock) is left out.
store_in_supabase_sql(rows, client, failing_batch, file_id, v, m) ==
    LET user_id == IF m.present /\ DOMAIN m.dict # {} THEN Get(m.dict, "user_id", "") ELSE ""
        batches == IF IsList(v)
                   THEN (Len(v.items) + InsertBatchSize - 1) \div InsertBatchSize
                   ELSE IF IsDict(v) THEN 1 ELSE 0
        batch(b) == IF IsList(v)
                    THEN sql_records(file_id, user_id,
                                     SubSeq(v.items, (b - 1) * InsertBatchSize + 1,
                                            IF b * InsertBatchSize < Len(v.items)
                                            THEN b * InsertBatchSize ELSE Len(v.items)),
                                     (b - 1) * InsertBatchSize)
                    ELSE <<[file_id |-> file_id, user_id |-> user_id,
                            row_index |-> 0, data |-> v]>>
        failed == failing_batch \in 1..batches
        done == IF failed THEN failing_batch - 1 ELSE batches
        inserted == Flatten([b \in 1..done |-> batch(b)])
    IN IF ~client
       THEN [rows |-> rows, result |-> sql_fallback("Supabase not available")]
       ELSE IF user_id = ""
       THEN [rows |-> rows, result |-> sql_fallback("user_id is required for SQL storage")]
       ELSE IF failed
       THEN [rows |-> rows \o inserted, result |-> sql_fallback("insert failed")]
       ELSE [rows |-> rows \o inserted,
             result |-> [success |-> TRUE,
                         storage |-> "supabase_sql",
                         rows_inserted |-> Len(inserted),
                         table |-> "structured_data",
                         note |-> "Data stored in Supabase SQL"]]

\* the indexes store_in_mongodb asks the collection to create
indexes_to_create(nosql_schema) ==
    LET defs == SelectSeq(Get(nosql_schema, "indexes", <<>>),
                          LAMBDA d : Get(d, "note", "") # "Automatic MongoDB index")
    IN [i \in 1..Len(defs) |-> defs[i].name]

\* indexes: the names of the indexes created on the collection so far;
\* write_ok: update_one does not raise.  created_at is left out.
store_in_mongodb(coll, indexes, available, write_ok, file_id, v, nosql_schema) ==
    IF ~available
    THEN [collection |-> coll, indexes |-> indexes,
          result |-> [success |-> FALSE, error |-> "MongoDB not available"]]
    ELSE LET created == indexes_to_create(nosql_schema)
         IN IF ~write_ok
            THEN [collection |-> coll, indexes |-> indexes \o created,
                  result |-> [success |-> FALSE, error |-> "write failed"]]
            ELSE [collection |-> update_one(coll, file_id,
                                            [file_id |-> file_id,
                                             data |-> v,
                                             schema |-> nosql_schema]),
                  indexes |-> indexes \o created,
                  result |-> [success |-> TRUE,
                              storage |-> "mongodb",
                              collection |-> Get(nosql_schema, "collection_name",
                                                 "structured_data"),
                              indexes_created |-> created,
                              document_count |-> 1,
                              note |-> "Data stored in MongoDB"]]

\* extract_metadata plus the custom metadata; the facts about the file on disk
\* (name, size, hash) and the wall clock are left out
extract_metadata(v, sch, m) ==
    (IF m.present /\ DOMAIN m.dict # {} THEN [custom |-> m.dict] ELSE <<>>) @@
    (IF IsList(v) THEN [record_count |-> Len(v.items)]
     ELSE IF IsDict(v) THEN [record_count |-> 1, field_count |-> Cardinality(Keys(v))]
     ELSE <<>>) @@
    [type |-> "structured_data", file_type |-> "structured_data", schema |-> sch]

\* data_storage_result.get('fallback_to_nosql') that is never taken
needs_fallback_never(storage_result) == FALSE

\* data_storage_result.get('fallback_to_nosql')
needs_fallback(storage_result) == Get(storage_result, "fallback_to_nosql", FALSE)


(***************************************************************************)
(* DecisionEngine (backend/decision_engine.py)                             *)
(***************************************************************************)
MEDIA_EXTENSIONS ==
    {".jpg", ".jpeg", ".png", ".gif", ".webp", ".heic", ".heif", ".svg", ".bmp", ".tiff",
     ".tif",
     ".mp4", ".mov", ".mkv", ".avi", ".webm", ".flv", ".wmv", ".m4v",
     ".mp3", ".m4a", ".wav", ".aac", ".flac", ".ogg", ".wma"}

DOCUMENT_EXTENSIONS ==
    {".pdf", ".txt", ".doc", ".docx", ".docs", ".rtf", ".odt", ".md", ".ppt", ".pptx"}

STRUCTURED_DATA_EXTENSIONS == {".json", ".csv", ".xml", ".tsv", ".yaml", ".yml"}

CODE_EXTENSIONS ==
    {".py", ".java", ".cpp", ".c", ".hpp", ".h",
     ".js", ".jsx", ".ts", ".tsx",
     ".go", ".rs", ".rb", ".php", ".swift", ".kt", ".scala",
     ".r", ".m", ".cs", ".sh", ".bash",
     ".sql", ".html", ".css", ".vue", ".dart", ".lua", ".pl",
     ".ipynb"}

\* the pipelines, each with its lazily constructed processor
Pipelines == {"media", "document", "structured_data", "code", "generic"}

RECURSIVE rfind(_, _)
\* str.rfind(ch) counted from 1; 0 stands for -1
rfind(str, ch) ==
    IF Len(str) = 0 THEN 0
    ELSE IF SubSeq(str, Len(str), Len(str)) = ch THEN Len(str)
    ELSE rfind(SubSeq(str, 1, Len(str) - 1), ch)

\* Path(file_path).name of a path that does not end in a separator
path_name(path) == SubSeq(path, rfind(path, "/") + 1, Len(path))

\* Path(file_path).suffix: the text from the last dot of the name on, unless
\* that dot is the first or the last character of the name
path_suffix(path) ==
    LET name == path_name(path)
        i == rfind(name, ".")
    IN IF 1 < i /\ i < Len(name) THEN SubSeq(name, i, Len(name)) ELSE ""

\* Path(file_path).suffix.lower()
file_extension(path) == Lower(path_suffix(path))

\* the decision tree applied to an extension
pipeline_of(file_ext) ==
    IF file_ext \in MEDIA_EXTENSIONS
    THEN <<"media", "Media Pipeline (Images/Videos/Audio)">>
    ELSE IF file_ext \in DOCUMENT_EXTENSIONS
    THEN <<"document", "Document Pipeline (PDF/TXT/DOCX)">>
    ELSE IF file_ext \in STRUCTURED_DATA_EXTENSIONS
    THEN <<"structured_data", "Structured Data Pipeline (JSON/CSV/XML)">>
    ELSE IF file_ext \in CODE_EXTENSIONS
    THEN <<"code", "Code Pipeline (Source Code)">>
    ELSE <<"generic", "Generic Pipeline (Unknown/Other)">>

\* determine_pipeline that compares the suffix as it is spelled
determine_pipeline_case_sensitive(path) == pipeline_of(path_suffix(path))

\* (pipeline_name, pipeline_description)
determine_pipeline(path) == pipeline_of(file_extension(path))

\* custom_metadata as route_and_process hands it to the processor
routed_metadata(m, routed) ==
    [present |-> TRUE,
     dict |-> [pipeline |-> routed[1], pipeline_description |-> routed[2]] @@ m.dict]

\* Step 1 of process_structured_data: the file_type of an extension; Nil
\* stands for the ValueError of the else branch
parse_file_type(file_ext) ==
    IF file_ext = ".json" THEN [file_type |-> "json"]
    ELSE IF file_ext = ".csv" THEN [file_type |-> "csv"]
    ELSE IF file_ext = ".xml" THEN [file_type |-> "xml"]
    ELSE Nil

(***************************************************************************)
(* BatchProcessor (backend/batch_processor.py).  The collection batches is *)
(* the record [connected, docs]: connected is `batches_collection is not   *)
(* None`, docs the batch records.  A uuid4 value is the record [uuid].     *)
(***************************************************************************)
\* str(uuid.uuid4()) of create_batch
NewBatchId == [uuid |-> 1]

\* batch_record of create_batch; the name, the user and the clock are left out
batch_record(id, total_files) ==
    [batch_id |-> id,
     total_files |-> total_files,
     processed_files |-> 0,
     successful_files |-> 0,
     failed_files |-> 0,
     status |-> "processing",
     files |-> <<>>,
     errors |-> <<>>]

\* create_batch whose return statement follows the if / else
create_batch_returning(coll, insert_ok, total_files) ==
    [collection |-> IF coll.connected /\ insert_ok
                    THEN [coll EXCEPT !.docs = Append(@, batch_record(NewBatchId, total_files))]
                    ELSE coll,
     returned |-> NewBatchId]

\* create_batch; insert_ok: insert_one does not raise.  `return batch_id` is
\* the last statement of the else branch, so the connected branch falls off
\* the end of the function and returns None.
create_batch(coll, insert_ok, total_files) ==
    IF coll.connected
    THEN [collection |-> IF insert_ok
                         THEN [coll EXCEPT !.docs =
                                  Append(@, batch_record(NewBatchId, total_files))]
                         ELSE coll,
          returned |-> Nil]
    ELSE [collection |-> coll, returned |-> NewBatchId]

\* the positions of the records the filter {'batch_id': id} matches
matching_batch(coll, id) == {i \in 1..Len(coll.docs) : coll.docs[i].batch_id = id}

\* update_batch_progress: update_one without upsert on the first match
update_batch_progress(coll, id, file_result) ==
    IF ~coll.connected \/ matching_batch(coll, id) = {} THEN coll
    ELSE LET i == MinOf(matching_batch(coll, id))
             ok == Get(file_result, "success", FALSE)
             entry == [filename |-> Get(file_result, "filename", Nil),
                       pipeline |-> Get(file_result, "pipeline", Nil),
                       status |-> IF ok THEN "success" ELSE "failed"]
         IN [coll EXCEPT !.docs[i] =
                [@ EXCEPT !.processed_files = @ + 1,
                          !.successful_files = @ + (IF ok THEN 1 ELSE 0),
                          !.failed_files = @ + (IF ok THEN 0 ELSE 1),
                          !.files = Append(@, entry),
                          !.errors = IF ok THEN @
                                     ELSE Append(@, [filename |-> entry.filename])]]

\* complete_batch
complete_batch(coll, id) ==
    IF ~coll.connected \/ matching_batch(coll, id) = {} THEN coll
    ELSE [coll EXCEPT !.docs[MinOf(matching_batch(coll, id))].status = "completed"]

\* get_batch_status; Nil stands for None
get_batch_status(coll, id) ==
    IF ~coll.connected \/ matching_batch(coll, id) = {} THEN Nil
    ELSE LET batch == coll.docs[MinOf(matching_batch(coll, id))]
         IN [progress_percentage |->
                IF batch.total_files > 0
                THEN (batch.processed_files * 100) \div batch.total_files
                ELSE 0] @@ batch

\* a semaphore that admits every caller
can_acquire_always(value) == TRUE

\* asyncio.Semaphore: acquire returns at once while the value is positive
can_acquire(value) == value > 0

\* the steps of process_with_semaphore in which a file is being processed
InFlightSteps == {"submitted", "constructing", "processing", "finished"}

(***************************************************************************)
(* Inputs                                                                  *)
(***************************************************************************)
\* scalar top-level keys an object may carry; id and order_id hold integers
BaseKeys == {"id", "name", "order_id"}
BaseValue(k) == IF k = "name" THEN Str("Alice") ELSE IntV

\* the nested field an object may carry besides its scalar keys
NestedShapes == {"none", "items", "order"}
NestedKeys(shape) == IF shape = "none" THEN {} ELSE {shape}
NestedValue(k) ==
    IF k = "items" THEN List(<<Dict([f \in {"id", "sku"} |-> IF f = "id" THEN IntV ELSE Str("A1")])>>)
    ELSE Dict([f \in {"total"} |-> Scalar("float")])

ObjSpecs == (SUBSET BaseKeys) \X NestedShapes

MkObj(spec) ==
    Dict([k \in spec[1] \cup NestedKeys(spec[2]) |->
             IF k \in BaseKeys THEN BaseValue(k) ELSE NestedValue(k)])

RECURSIVE Nest(_)
\* an integer wrapped in d single-key objects
Nest(d) == IF d = 0 THEN IntV ELSE Dict([k \in {"child"} |-> Nest(d - 1)])

\* values that are neither an object nor an array of objects only
OtherValues ==
    <<None, IntV, Str("text"), Scalar("bool"), Scalar("float"),
      List(<<>>),
      List(<<IntV, Str("a")>>),
      List(<<List(<<IntV>>), IntV>>),
      List(<<MkObj(<<{"id"}, "none">>), IntV>>),
      List(<<IntV, MkObj(<<{"id"}, "none">>)>>),
      Dict(<<>>)>>

\* what parse_csv returns for a file with the given header
CsvColumnChoices == {<<>>, <<"id">>, <<"id", "name">>, <<"name", "order_id">>}
CsvParsed(cols) ==
    Dict([k \in {"columns", "data", "row_count", "column_count"} |->
             IF k = "columns" THEN List([i \in 1..Len(cols) |-> Str(cols[i])])
             ELSE IF k = "data" THEN List(<<>>)
             ELSE IntV])

\* what parse_xml returns for a document with a childless root element
XmlParsed ==
    Dict([k \in {"root", "root_tag"} |->
             IF k = "root"
             THEN Dict([f \in {"tag", "attributes"} |->
                           IF f = "tag" THEN Str("catalog") ELSE Dict(<<>>)])
             ELSE Str("catalog")])

NoMetadata == [present |-> FALSE, dict |-> <<>>]
EvolvingHint == [present |-> TRUE, dict |-> [description |-> "evolving schema_changes expected"]]
SchemaChangesHint == [present |-> TRUE, dict |-> [description |-> "Schema_Changes likely"]]
\* the hints that only announce schema evolution
EvolutionHints == {EvolvingHint, SchemaChangesHint}
MetadataChoices ==
    <<NoMetadata,
      EvolvingHint,
      SchemaChangesHint,
      [present |-> TRUE,
       dict |-> [description |-> "Flexible relational data",
                 tags |-> {"nosql"},
                 hints |-> [optimize_by |-> <<"name">>]]]>>

\* Scenario A of the specification
ScenarioA == List(<<MkObj(<<BaseKeys, "none">>), MkObj(<<BaseKeys, "none">>)>>)

\* an object with the given keys: id holds an int, every other key the value other
Obj(keys, other) == Dict([k \in keys |-> IF k = "id" THEN IntV ELSE other])

\* arrays of objects that exercise the samples of the analyzer and of the
\* inferrer: id-like keys of several spellings and value types, nested keys
\* whose first value is null or a scalar, and a nested key that first occurs
\* in the eleventh element
KeyedArrays ==
    <<List(<<Obj({"id", "IdCardId"}, IntV)>>),
      List(<<Obj({"id", "ref_id"}, NestedValue("order"))>>),
      List(<<Obj({"owner_id"}, None), Obj({"owner_id"}, IntV)>>),
      List(<<Obj({"owner_id"}, IntV), Obj({"owner_id"}, Str("u7"))>>),
      List(<<Obj({"owner_id"}, None)>>),
      List(<<Obj({"id", "items"}, None),
             Obj({"id", "items"}, NestedValue("items"))>>),
      List(<<Obj({"id", "order"}, IntV),
             Obj({"id", "order"}, NestedValue("order"))>>),
      List([i \in 1..(NestedFieldSample + 1) |->
               IF i <= NestedFieldSample
               THEN Obj({"id"}, IntV)
               ELSE Obj({"id", "late"}, NestedValue("order"))])>>

\* the file_id (uuid4) of the upload in progress and of an earlier upload
FileId == "f1"
FileIds == {"f1", "f2"}

\* objects of the uploads followed through storage: flat keys, a nested array,
\* a nested object, a nested object under the key main_data, scalar values of
\* every type, and a second typing of the same keys
UploadObjects ==
    <<MkObj(<<BaseKeys, "none">>),
      MkObj(<<{"id"}, "items">>),
      MkObj(<<BaseKeys, "order">>),
      Dict([k \in {"id", "main_data"} |-> IF k = "id" THEN IntV ELSE NestedValue("order")]),
      Dict([k \in {"id", "price", "active", "note"} |->
               CASE k = "id" -> IntV
                 [] k = "price" -> Scalar("float")
                 [] k = "active" -> Scalar("bool")
                 [] OTHER -> None]),
      Dict([k \in {"id", "price", "email"} |->
               CASE k = "id" -> IntV
                 [] k = "price" -> IntV
                 [] OTHER -> Str("a@b.c")])>>

\* custom_metadata of an upload: none, the uploader's user_id, and a user_id
\* with a tag asking for SQL
UploadMetadata ==
    <<NoMetadata,
      [present |-> TRUE, dict |-> [user_id |-> "u1"]],
      [present |-> TRUE, dict |-> [user_id |-> "u1", tags |-> {"sql"}]]>>

\* an array one element longer than a batch of store_in_supabase_sql
BulkUpload == List([i \in 1..InsertBatchSize + 1 |-> Dict([k \in {"id"} |-> IntV])])

\* the document an earlier upload left in the collection
PriorManifest ==
    build_manifest("f2", infer_schema(XmlParsed, "xml", <<>>), "nosql", <<>>)
PriorDocument == [file_id |-> "f2", schema_manifest |-> PriorManifest]


(***************************************************************************)
(* The pipeline: analyze, decide, infer (steps 2-4 of                      *)
(* process_structured_data).  The three steps are static methods, so the   *)
(* inputs also cover the values a direct caller can pass (a top-level      *)
(* null, which parse_json itself rejects).                                 *)
(***************************************************************************)
\* the callers of save_manifest
Procs == {"p1", "p2"}
IdleSaver(calls) ==
    [pc |-> "idle", left |-> calls, manifest |-> Nil, result |-> Nil, raced |-> FALSE]

\* result before Step 1 (file_id is FileId; original_file is left out)
InitialResult == [success |-> TRUE]

\* no file is being routed
NoRouting ==
    /\ file_path = Nil
    /\ pipeline = Nil

\* no batch upload is in progress
NoBatch ==
    /\ batches_collection = Nil
    /\ batch_id = Nil
    /\ handler_pc = "idle"
    /\ max_concurrent = 0
    /\ semaphore = 0
    /\ tasks = <<>>
    /\ processors = [p \in Pipelines |-> Nil]
    /\ constructions = [p \in Pipelines |-> 0]
    /\ batch_status = Nil

\* no storage is touched and no caller of save_manifest runs
StorageIdle ==
    /\ storage_backend = Nil
    /\ result = InitialResult
    /\ sql_result = Nil
    /\ collection = <<>>
    /\ structured_data = <<>>
    /\ created_indexes = <<>>
    /\ mongo_available = TRUE
    /\ write_errors = {}
    /\ savers = [p \in Procs |-> IdleSaver(0)]
    /\ saved = [f \in FileIds |-> Nil]
    /\ NoRouting
    /\ NoBatch

InitInput ==
    \/ /\ \E n \in 1..MaxObjs : \E c \in [1..n -> ObjSpecs] :
              data = List([i \in 1..n |-> MkObj(c[i])])
       /\ file_type = "json"
    \/ /\ \E c \in ObjSpecs : data = MkObj(c)
       /\ file_type = "json"
    \/ /\ \E d \in 1..MaxNest : data = Nest(d)
       /\ file_type = "json"
    \/ /\ \E i \in 1..Len(OtherValues) : data = OtherValues[i]
       /\ file_type = "json"
    \/ /\ \E i \in 1..Len(KeyedArrays) : data = KeyedArrays[i]
       /\ file_type = "json"
    \/ /\ \E cols \in CsvColumnChoices : data = CsvParsed(cols)
       /\ file_type = "csv"
    \/ /\ data = XmlParsed
       /\ file_type = "xml"

Init ==
    /\ InitInput
    /\ \E i \in 1..Len(MetadataChoices) : metadata = MetadataChoices[i]
    /\ pc = "parsed"
    /\ analysis = Nil
    /\ decision = Nil
    /\ schema = Nil
    /\ StorageIdle

\* Step 2
Analyze ==
    /\ pc = "parsed"
    /\ analysis' = analyze_json_structure(data, metadata)
    /\ pc' = "analyzed"
    /\ UNCHANGED <<input_vars, decision, schema, storage_backend, result, sql_result,
                   store_vars, manifest_vars, route_vars, batch_vars>>

\* Step 3
Decide ==
    /\ pc = "analyzed"
    /\ decision' = decide(analysis)
    /\ storage_backend' = decide(analysis).decision
    /\ result' = [storage_backend |-> decide(analysis).decision] @@ result
    /\ pc' = "decided"
    /\ UNCHANGED <<input_vars, analysis, schema, sql_result, store_vars, manifest_vars, route_vars, batch_vars>>

\* Step 4
InferSchema ==
    /\ pc = "decided"
    /\ schema' = infer_schema(data, file_type, analysis)
    /\ pc' = "inferred"
    /\ UNCHANGED <<input_vars, analysis, decision, storage_backend, result, sql_result,
                   store_vars, manifest_vars, route_vars, batch_vars>>

Next == Analyze \/ Decide \/ InferSchema

Spec == Init /\ [][Next]_vars


(***************************************************************************)
(* decide on its own: the analysis is drawn from the records the analyzer  *)
(* can return, including array lengths around the large-dataset threshold  *)
(***************************************************************************)
ArrayLengths == {0, 1, LargeDatasetThreshold, LargeDatasetThreshold + 1}

SomeCandidate == [field |-> "order_id", type |-> "int", likely_foreign_key |-> TRUE,
                  inferred_table |-> "order"]

InitDecide ==
    /\ \E u \in BOOLEAN, t \in BOOLEAN, arr \in BOOLEAN, rel \in BOOLEAN,
          evo \in BOOLEAN, psql \in BOOLEAN, pnosql \in BOOLEAN,
          depth \in 0..MaxNest, len \in ArrayLengths :
          /\ t => (u /\ ~arr)
          /\ analysis =
                (IF evo THEN [schema_evolution_expected |-> TRUE] ELSE <<>>) @@
                (IF psql THEN [prefer_sql |-> TRUE] ELSE <<>>) @@
                (IF pnosql THEN [prefer_nosql |-> TRUE] ELSE <<>>) @@
                [data_type |-> "list", is_array |-> TRUE, is_object |-> FALSE,
                 is_primitive |-> FALSE, is_tabular |-> t, is_uniform |-> u,
                 is_nested |-> depth > 1, is_hierarchical |-> FALSE,
                 nesting_depth |-> depth, has_arrays_in_objects |-> arr,
                 has_repeated_structures |-> FALSE,
                 relationship_candidates |-> IF rel THEN <<SomeCandidate>> ELSE <<>>,
                 array_length |-> len]
    /\ data = Nil
    /\ file_type = "json"
    /\ metadata = NoMetadata
    /\ pc = "analyzed"
    /\ decision = Nil
    /\ schema = Nil
    /\ StorageIdle

NextDecide == Decide

SpecDecide == InitDecide /\ [][NextDecide]_vars

\* result['sql_schema'] or result['nosql_schema'] of Step 6
generate_storage_schema(backend, sch) ==
    IF backend = "sql"
    THEN [sql_schema |-> generate_sql_schema(sch)]
    ELSE [nosql_schema |-> generate_nosql_schema(sch)]

\* Step 6
GenerateSchema ==
    /\ pc = "inferred"
    /\ result' = generate_storage_schema(storage_backend, schema) @@ result
    /\ pc' = "generated"
    /\ UNCHANGED <<input_vars, analysis, decision, schema, storage_backend, sql_result,
                   store_vars, manifest_vars, route_vars, batch_vars>>

\* Step 9.  The environment decides whether a Supabase client is available,
\* which insert (if any) is rejected, and whether each write to MongoDB goes
\* through.
StoreData ==
    /\ pc = "generated"
    /\ \E client \in BOOLEAN, failing_batch \in 0..2, ok1 \in BOOLEAN, ok2 \in BOOLEAN :
          LET sql == store_in_supabase_sql(structured_data, client, failing_batch,
                                           FileId, data, metadata)
              fallback == storage_backend = "sql" /\ needs_fallback(sql.result)
              backend == IF fallback THEN "nosql" ELSE storage_backend
              nosql_schema == generate_nosql_schema(schema)
              with_schema == IF fallback THEN [nosql_schema |-> nosql_schema] @@ result
                             ELSE result
              first == IF fallback
                       THEN store_in_mongodb(collection, created_indexes, mongo_available,
                                             ok1, FileId, data, nosql_schema)
                       ELSE [collection |-> collection,
                             indexes |-> created_indexes,
                             result |-> IF storage_backend = "sql" THEN sql.result ELSE Nil]
              second == IF backend = "nosql"
                        THEN store_in_mongodb(first.collection, first.indexes,
                                              mongo_available, ok2, FileId, data,
                                              Get(with_schema, "nosql_schema", <<>>))
                        ELSE first
          IN /\ sql_result' = IF storage_backend = "sql" THEN sql.result ELSE Nil
             /\ structured_data' = IF storage_backend = "sql" THEN sql.rows
                                   ELSE structured_data
             /\ storage_backend' = backend
             /\ collection' = second.collection
             /\ created_indexes' = second.indexes
             /\ result' = [data_storage |-> second.result, storage_backend |-> backend]
                              @@ with_schema
    /\ pc' = "stored"
    /\ UNCHANGED <<input_vars, analysis, decision, schema, mongo_available, write_errors,
                   manifest_vars, route_vars, batch_vars>>

\* Step 10; Step 8 (the S3 upload) is not modelled, s3_info is {}
StoreMetadata ==
    /\ pc = "stored"
    /\ \E ok \in BOOLEAN :
          LET md == extract_metadata(data, schema, metadata)
              db == insert_media(collection, mongo_available, ok, FileId, md, <<>>,
                                 [storage_backend |-> storage_backend])
          IN /\ collection' = db.collection
             /\ result' = (IF db.result.success THEN [db_info |-> db.result]
                           ELSE [db_error |-> db.result.error])
                              @@ [metadata |-> md] @@ result
             /\ write_errors' = IF mongo_available /\ ~ok
                                THEN write_errors \cup {"insert_media"}
                                ELSE write_errors
    /\ pc' = "recorded"
    /\ UNCHANGED <<input_vars, analysis, decision, schema, storage_backend, sql_result,
                   structured_data, created_indexes, mongo_available, manifest_vars,
                   route_vars, batch_vars>>

\* the except clause of process_structured_data
processing_failed(error) ==
    [success |-> FALSE, error |-> "Structured data processing failed: " \o error]

\* Step 11 and the return
SaveManifest ==
    /\ pc = "recorded"
    /\ \E ok \in BOOLEAN :
          LET r == save_manifest(collection, mongo_available, ok, FileId, schema,
                                 storage_backend, result.metadata)
          IN /\ collection' = r.collection
             /\ result' = IF "raised" \in DOMAIN r.result
                          THEN processing_failed(r.result.raised)
                          ELSE IF r.result.success THEN [manifest |-> r.result] @@ result
                          ELSE result
             /\ saved' = IF "raised" \notin DOMAIN r.result /\ r.result.success
                         THEN [saved EXCEPT ![FileId] =
                                  build_manifest(FileId, schema, storage_backend,
                                                 result.metadata)]
                         ELSE saved
             /\ write_errors' = IF mongo_available /\ ~ok
                                THEN write_errors \cup {"save_manifest"}
                                ELSE write_errors
    /\ pc' = "done"
    /\ UNCHANGED <<input_vars, analysis, decision, schema, storage_backend, sql_result,
                   structured_data, created_indexes, mongo_available, savers,
                   route_vars, batch_vars>>

(***************************************************************************)
(* An upload followed from parsing to the return of                        *)
(* process_structured_data (steps 2-6 and 9-11)                            *)
(***************************************************************************)
UploadInput ==
    \/ /\ \E n \in 1..MaxObjs : \E c \in [1..n -> 1..Len(UploadObjects)] :
              data = List([i \in 1..n |-> UploadObjects[c[i]]])
       /\ file_type = "json"
    \/ /\ \E i \in 1..Len(UploadObjects) : data = UploadObjects[i]
       /\ file_type = "json"
    \/ /\ \E i \in 1..Len(OtherValues) : data = OtherValues[i]
       /\ file_type = "json"
    \/ /\ \E cols \in CsvColumnChoices : data = CsvParsed(cols)
       /\ file_type = "csv"
    \/ /\ data = XmlParsed
       /\ file_type = "xml"
    \/ /\ data = BulkUpload
       /\ file_type = "json"

InitUpload ==
    /\ UploadInput
    /\ \E i \in 1..Len(UploadMetadata) : metadata = UploadMetadata[i]
    /\ pc = "parsed"
    /\ analysis = Nil
    /\ decision = Nil
    /\ schema = Nil
    /\ storage_backend = Nil
    /\ result = InitialResult
    /\ sql_result = Nil
    /\ collection = <<PriorDocument>>
    /\ structured_data = <<>>
    /\ created_indexes = <<>>
    /\ mongo_available \in BOOLEAN
    /\ write_errors = {}
    /\ savers = [p \in Procs |-> IdleSaver(0)]
    /\ saved = [f \in FileIds |-> IF f = "f2" THEN PriorManifest ELSE Nil]
    /\ NoRouting
    /\ NoBatch

NextUpload ==
    \/ Analyze
    \/ Decide
    \/ InferSchema
    \/ GenerateSchema
    \/ StoreData
    \/ StoreMetadata
    \/ SaveManifest

SpecUpload == InitUpload /\ [][NextUpload]_vars

(***************************************************************************)
(* save_manifest called by concurrent request handlers on one manifest     *)
(* store.  A call builds its manifest and then issues one update_one; the  *)
(* two steps of different callers interleave freely.                       *)
(***************************************************************************)
\* the schemas the callers save
ManifestSchemas ==
    <<infer_schema(ScenarioA, "json", analyze_json_structure(ScenarioA, NoMetadata)),
      infer_schema(XmlParsed, "xml", analyze_json_structure(XmlParsed, NoMetadata))>>

\* a caller builds the manifest of its next call
BeginSave(p) ==
    /\ savers[p].pc = "idle"
    /\ savers[p].left > 0
    /\ \E f \in FileIds, i \in 1..Len(ManifestSchemas), b \in {"sql", "nosql"} :
          savers' = [savers EXCEPT ![p] =
                        [pc |-> "built",
                         left |-> savers[p].left - 1,
                         manifest |-> build_manifest(f, ManifestSchemas[i], b, <<>>),
                         result |-> Nil,
                         raced |-> FALSE]]
    /\ UNCHANGED <<input_vars, pc, analysis, decision, schema, storage_backend, result,
                   sql_result, store_vars, saved, route_vars, batch_vars>>

\* the caller's update_one is applied (or fails) and the call returns
CommitSave(p) ==
    /\ savers[p].pc = "built"
    /\ \E ok \in BOOLEAN :
          LET m == savers[p].manifest
              r == write_manifest(collection, mongo_available, ok, m)
          IN /\ collection' = r.collection
             /\ saved' = IF r.result.success THEN [saved EXCEPT ![m.file_id] = m]
                         ELSE saved
             /\ savers' = [savers EXCEPT ![p] =
                              [pc |-> "idle",
                               left |-> savers[p].left,
                               manifest |-> m,
                               result |-> r.result,
                               raced |-> \E q \in Procs \ {p} :
                                            /\ savers[q].pc = "built"
                                            /\ savers[q].manifest.file_id = m.file_id]]
    /\ UNCHANGED <<input_vars, pc, analysis, decision, schema, storage_backend, result,
                   sql_result, structured_data, created_indexes, mongo_available,
                   write_errors, route_vars, batch_vars>>

InitStore(calls) ==
    /\ data = Nil
    /\ file_type = "json"
    /\ metadata = NoMetadata
    /\ pc = "idle"
    /\ analysis = Nil
    /\ decision = Nil
    /\ schema = Nil
    /\ storage_backend = Nil
    /\ result = Nil
    /\ sql_result = Nil
    /\ \/ collection = <<>>
       \/ collection = <<[file_id |-> "f1", data |-> ScenarioA]>>
    /\ structured_data = <<>>
    /\ created_indexes = <<>>
    /\ mongo_available \in BOOLEAN
    /\ write_errors = {}
    /\ savers = [p \in Procs |-> IdleSaver(calls)]
    /\ saved = [f \in FileIds |-> Nil]
    /\ NoRouting
    /\ NoBatch

NextManifest == \E p \in Procs : BeginSave(p) \/ CommitSave(p)

\* any sequence of calls, at most MaxSaves per caller
InitManifest == InitStore(MaxSaves)
SpecManifest == InitManifest /\ [][NextManifest]_vars

\* two calls, one per caller
InitRace == InitStore(1)
SpecRace == InitRace /\ [][NextManifest]_vars

(***************************************************************************)
(* route_and_process on one file: the routing decision and, for a file     *)
(* routed to the structured-data pipeline, Step 1 of                       *)
(* process_structured_data (steps 2-11 are followed in SpecUpload)         *)
(***************************************************************************)
\* directory and stem of the paths routed
RoutedStems == {"report", "up.load/data"}

KnownExtensions ==
    MEDIA_EXTENSIONS \cup DOCUMENT_EXTENSIONS \cup STRUCTURED_DATA_EXTENSIONS
        \cup CODE_EXTENSIONS

\* every known extension in lower and in upper case, an unknown extension, a
\* double extension, no extension, and names whose only dot is the first or
\* the last character or lies in the directory
RoutedPaths ==
    {stem \o ext : stem \in RoutedStems,
                   ext \in KnownExtensions \cup {Upper(e) : e \in KnownExtensions}
                               \cup {".xyz", ".tar.gz", ".Json", ""}}
        \cup {".json", "data.csv.", "dir.csv/readme"}

\* what the parsers return for a well-formed file of the type
WellFormed(ftype) ==
    IF ftype = "json" THEN {ScenarioA, MkObj(<<BaseKeys, "order">>)}
    ELSE IF ftype = "csv" THEN {CsvParsed(<<"id", "name">>)}
    ELSE {XmlParsed}

InitRoute ==
    /\ file_path \in RoutedPaths
    /\ pipeline = Nil
    /\ metadata \in {NoMetadata, [present |-> TRUE, dict |-> [user_id |-> "u1"]]}
    /\ data = Nil
    /\ file_type = Nil
    /\ pc = "received"
    /\ analysis = Nil
    /\ decision = Nil
    /\ schema = Nil
    /\ storage_backend = Nil
    /\ result = Nil
    /\ sql_result = Nil
    /\ collection = <<>>
    /\ structured_data = <<>>
    /\ created_indexes = <<>>
    /\ mongo_available = TRUE
    /\ write_errors = {}
    /\ savers = [p \in Procs |-> IdleSaver(0)]
    /\ saved = [f \in FileIds |-> Nil]
    /\ NoBatch

\* route_and_process up to the call of the processor
Route ==
    /\ pc = "received"
    /\ pipeline' = determine_pipeline(file_path)[1]
    /\ metadata' = routed_metadata(metadata, determine_pipeline(file_path))
    /\ pc' = "routed"
    /\ UNCHANGED <<data, file_type, file_path, analysis, decision, schema, storage_backend,
                   result, sql_result, store_vars, manifest_vars, batch_vars>>

\* Step 1 of process_structured_data on a well-formed file, and the return
\* of route_and_process when the step raises
ParseStep ==
    /\ pc = "routed"
    /\ pipeline = "structured_data"
    /\ LET file_ext == file_extension(file_path)
           parsed == parse_file_type(file_ext)
       IN IF parsed = Nil
          THEN /\ result' = [pipeline |-> determine_pipeline(file_path)[1],
                             pipeline_description |-> determine_pipeline(file_path)[2]]
                               @@ processing_failed("Unsupported file type: " \o file_ext)
               /\ pc' = "done"
               /\ UNCHANGED <<data, file_type>>
          ELSE /\ file_type' = parsed.file_type
               /\ data' \in WellFormed(parsed.file_type)
               /\ result' = InitialResult
               /\ pc' = "parsed"
    /\ UNCHANGED <<metadata, file_path, pipeline, analysis, decision, schema, storage_backend,
                   sql_result, store_vars, manifest_vars, batch_vars>>

NextRoute == Route \/ ParseStep

SpecRoute == InitRoute /\ [][NextRoute]_vars

(***************************************************************************)
(* A batch upload: the handler creates the batch, process_batch_async      *)
(* runs one process_with_semaphore coroutine per file, each handing        *)
(* route_and_process to a thread of the default executor, and the handler  *)
(* completes the batch and reads its status.  The threads share the        *)
(* handler's DecisionEngine; what a processor does with a file is left     *)
(* open (it succeeds or fails).                                            *)
(***************************************************************************)
\* most files in a batch
MaxFiles == 2
\* largest max_concurrent a client asks for
MaxConcurrent == 2

\* the files a batch is made of
BatchPaths == {"a.json", "b.png"}

\* determine_pipeline tabulated over the files of a batch
BatchPipeline == [f \in BatchPaths |-> determine_pipeline(f)[1]]

\* a coroutine before it has entered the semaphore
PendingTask(path) ==
    [path |-> path, pc |-> "pending", pipeline |-> "", success |-> FALSE, runs |-> 0]

InitBatch ==
    /\ batches_collection \in [connected : BOOLEAN, docs : {<<>>}]
    /\ batch_id = Nil
    /\ handler_pc = "idle"
    /\ max_concurrent \in 1..MaxConcurrent
    /\ semaphore = 0
    /\ \E n \in 1..MaxFiles : tasks \in [1..n -> {PendingTask(f) : f \in BatchPaths}]
    /\ processors = [p \in Pipelines |-> Nil]
    /\ constructions = [p \in Pipelines |-> 0]
    /\ batch_status = Nil
    /\ data = Nil
    /\ file_type = Nil
    /\ metadata = NoMetadata
    /\ pc = "idle"
    /\ analysis = Nil
    /\ decision = Nil
    /\ schema = Nil
    /\ storage_backend = Nil
    /\ result = Nil
    /\ sql_result = Nil
    /\ collection = <<>>
    /\ structured_data = <<>>
    /\ created_indexes = <<>>
    /\ mongo_available = TRUE
    /\ write_errors = {}
    /\ savers = [p \in Procs |-> IdleSaver(0)]
    /\ saved = [f \in FileIds |-> Nil]
    /\ NoRouting

upload_vars == <<input_vars, pc, analysis, decision, schema, storage_backend, result,
                 sql_result, store_vars, manifest_vars, route_vars>>

\* the handler calls create_batch
CreateBatch ==
    /\ handler_pc = "idle"
    /\ \E insert_ok \in BOOLEAN :
          LET r == create_batch(batches_collection, insert_ok, Len(tasks))
          IN /\ batches_collection' = r.collection
             /\ batch_id' = r.returned
    /\ handler_pc' = "created"
    /\ UNCHANGED <<upload_vars, max_concurrent, semaphore, tasks, processors, constructions,
                   batch_status>>

\* process_batch_async creates the semaphore and the coroutines
StartBatch ==
    /\ handler_pc = "created"
    /\ semaphore' = max_concurrent
    /\ handler_pc' = "gathering"
    /\ UNCHANGED <<upload_vars, batches_collection, batch_id, max_concurrent, tasks,
                   processors, constructions, batch_status>>

\* process_with_semaphore enters the semaphore and hands the file to the executor
AcquireSemaphore(i) ==
    /\ handler_pc = "gathering"
    /\ tasks[i].pc = "pending"
    /\ can_acquire(semaphore)
    /\ semaphore' = semaphore - 1
    /\ tasks' = [tasks EXCEPT ![i].pc = "submitted"]
    /\ UNCHANGED <<upload_vars, batches_collection, batch_id, handler_pc, max_concurrent,
                   processors, constructions, batch_status>>

\* the worker thread: route_and_process determines the pipeline and the
\* property of that pipeline tests its field
EnterProcessor(i) ==
    /\ tasks[i].pc = "submitted"
    /\ LET p == BatchPipeline[tasks[i].path]
       IN tasks' = [tasks EXCEPT ![i].pipeline = p,
                                 ![i].pc = IF processors[p] = Nil THEN "constructing"
                                           ELSE "processing"]
    /\ UNCHANGED <<upload_vars, batches_collection, batch_id, handler_pc, max_concurrent,
                   semaphore, processors, constructions, batch_status>>

\* the worker thread: the property constructs the processor and stores it
ConstructProcessor(i) ==
    /\ tasks[i].pc = "constructing"
    /\ LET p == tasks[i].pipeline
       IN /\ constructions' = [constructions EXCEPT ![p] = @ + 1]
          /\ processors' = [processors EXCEPT ![p] = [instance |-> constructions[p] + 1]]
    /\ tasks' = [tasks EXCEPT ![i].pc = "processing"]
    /\ UNCHANGED <<upload_vars, batches_collection, batch_id, handler_pc, max_concurrent,
                   semaphore, batch_status>>

\* the worker thread: the processor handles the file and route_and_process returns
ProcessFile(i) ==
    /\ tasks[i].pc = "processing"
    /\ \E ok \in BOOLEAN :
          tasks' = [tasks EXCEPT ![i].success = ok,
                                 ![i].runs = @ + 1,
                                 ![i].pc = "finished"]
    /\ UNCHANGED <<upload_vars, batches_collection, batch_id, handler_pc, max_concurrent,
                   semaphore, processors, constructions, batch_status>>

\* the event loop resumes the coroutine: update_batch_progress, then the
\* semaphore is left
ResumeTask(i) ==
    /\ tasks[i].pc = "finished"
    /\ batches_collection' =
           update_batch_progress(batches_collection, batch_id,
                                 [success |-> tasks[i].success,
                                  filename |-> tasks[i].path,
                                  pipeline |-> tasks[i].pipeline])
    /\ semaphore' = semaphore + 1
    /\ tasks' = [tasks EXCEPT ![i].pc = "done"]
    /\ UNCHANGED <<upload_vars, batch_id, handler_pc, max_concurrent, processors,
                   constructions, batch_status>>

\* asyncio.gather has returned: process_batch_async calls complete_batch
CompleteBatch ==
    /\ handler_pc = "gathering"
    /\ \A i \in DOMAIN tasks : tasks[i].pc = "done"
    /\ batches_collection' = complete_batch(batches_collection, batch_id)
    /\ handler_pc' = "completed"
    /\ UNCHANGED <<upload_vars, batch_id, max_concurrent, semaphore, tasks, processors,
                   constructions, batch_status>>

\* the handler reads the final status
GetBatchStatus ==
    /\ handler_pc = "completed"
    /\ batch_status' = get_batch_status(batches_collection, batch_id)
    /\ handler_pc' = "responded"
    /\ UNCHANGED <<upload_vars, batches_collection, batch_id, max_concurrent, semaphore,
                   tasks, processors, constructions>>

NextBatch ==
    \/ CreateBatch
    \/ StartBatch
    \/ \E i \in DOMAIN tasks : AcquireSemaphore(i)
    \/ \E i \in DOMAIN tasks : EnterProcessor(i)
    \/ \E i \in DOMAIN tasks : ConstructProcessor(i)
    \/ \E i \in DOMAIN tasks : ProcessFile(i)
    \/ \E i \in DOMAIN tasks : ResumeTask(i)
    \/ CompleteBatch
    \/ GetBatchStatus

SpecBatch == InitBatch /\ [][NextBatch]_vars

\* the event loop runs every coroutine that can continue and the executor
\* runs every job it was given
SpecBatchLive == InitBatch /\ [][NextBatch]_vars /\ WF_vars(NextBatch)


(***************************************************************************)
(* Properties                                                              *)
(***************************************************************************)
Analyzed == pc \in {"analyzed", "decided", "inferred"}
Decided == pc \in {"decided", "inferred"}
Inferred == pc = "inferred"

\* the input is a non-empty array whose elements are all objects
IsArrayOfObjects(v) ==
    /\ IsList(v)
    /\ Len(v.items) > 0
    /\ \A i \in 1..Len(v.items) : IsDict(v.items[i])

TableNames(sch) == {Tables(sch)[i].name : i \in 1..Len(Tables(sch))}

\* C1: in every inferred schema, every relationship's references_table (the
\* foreign keys inferred from keys ending in _id included) names a table of
\* the same schema.
C1_ReferencesNameSchemaTables ==
    Inferred =>
        \A i \in 1..Len(Tables(schema)) :
            LET rels == Get(Tables(schema)[i], "relationships", <<>>)
            IN \A j \in 1..Len(rels) : rels[j].references_table \in TableNames(schema)

\* C2: for every input value, with or without hints, is_tabular implies
\* is_uniform and an empty nested_fields.
C2_TabularImpliesUniformFlat ==
    Analyzed =>
        (analysis.is_tabular =>
            analysis.is_uniform /\ Get(analysis, "nested_fields", {}) = {})

\* C2 witness: an analysis of a non-trivial array that is tabular
C2_Witness ==
    /\ Analyzed
    /\ analysis.is_tabular
    /\ Get(analysis, "all_keys", {}) # {}
    /\ metadata.present

\* the scoring table of the decision engine, in table order; a is the analysis
ScoringTable(a) ==
    LET depth == IF "nesting_depth" \in DOMAIN a THEN a.nesting_depth ELSE 0
        len == IF "array_length" \in DOMAIN a THEN a.array_length ELSE 0
        flag(k) == k \in DOMAIN a /\ a[k]
    IN <<[holds |-> flag("is_uniform"), sql |-> 3, nosql |-> 0,
          reason |-> "Uniform structure favors SQL"],
         [holds |-> ~flag("is_uniform"), sql |-> 0, nosql |-> 2,
          reason |-> "Non-uniform structure favors NoSQL"],
         [holds |-> flag("is_tabular"), sql |-> 4, nosql |-> 0,
          reason |-> "Tabular data is ideal for SQL"],
         [holds |-> depth = 0, sql |-> 2, nosql |-> 0,
          reason |-> "Flat structure suits SQL"],
         [holds |-> depth \in 1..2, sql |-> 1, nosql |-> 1,
          reason |-> "Shallow nesting works for both"],
         [holds |-> depth > 2, sql |-> 0, nosql |-> 3,
          reason |-> "Deep nesting favors NoSQL"],
         [holds |-> a.relationship_candidates # <<>>, sql |-> 2, nosql |-> 0,
          reason |-> "Detected relationships favor SQL"],
         [holds |-> flag("has_arrays_in_objects"), sql |-> 0, nosql |-> 2,
          reason |-> "Arrays in objects complicate SQL, favor NoSQL"],
         [holds |-> flag("schema_evolution_expected"), sql |-> 0, nosql |-> 3,
          reason |-> "Expected schema changes favor NoSQL"],
         [holds |-> flag("prefer_sql"), sql |-> 5, nosql |-> 0,
          reason |-> "User preference for SQL"],
         [holds |-> flag("prefer_nosql") /\ ~flag("prefer_sql"), sql |-> 0, nosql |-> 5,
          reason |-> "User preference for NoSQL"],
         [holds |-> len > 10000, sql |-> 0, nosql |-> 1,
          reason |-> "Large dataset may benefit from NoSQL scalability"]>>

Triggered(a) == SelectSeq(ScoringTable(a), LAMBDA row : row.holds)

\* C3: sql_score and nosql_score are the sums of the weights of exactly the
\* rows of the scoring table whose condition holds, the prefer_nosql row
\* applying only when prefer_sql is not set; reasons lists the triggered rows
\* in table order.
C3_ScoresFollowTable ==
    Decided =>
        LET rows == Triggered(analysis)
        IN /\ decision.sql_score = SumSeq([i \in 1..Len(rows) |-> rows[i].sql])
           /\ decision.nosql_score = SumSeq([i \in 1..Len(rows) |-> rows[i].nosql])
           /\ decision.reasons = [i \in 1..Len(rows) |-> rows[i].reason]

\* C3 witness: both preferences set on a large dataset; prefer_sql alone counts
C3_Witness ==
    /\ Decided
    /\ Get(analysis, "prefer_sql", FALSE)
    /\ Get(analysis, "prefer_nosql", FALSE)
    /\ Get(analysis, "array_length", 0) > LargeDatasetThreshold
    /\ Get(analysis, "nesting_depth", 0) > 2
    /\ decision.sql_score = 5
    /\ decision.nosql_score = 6

\* C4: the backend is sql iff sql_score > nosql_score, a tie gives nosql, and
\* confidence is the absolute difference of the scores.
C4_StrictComparison ==
    Decided =>
        /\ decision.decision \in {"sql", "nosql"}
        /\ (decision.decision = "sql") <=> (decision.sql_score > decision.nosql_score)
        /\ (decision.sql_score = decision.nosql_score) => (decision.decision = "nosql")
        /\ decision.confidence >= 0
        /\ \/ decision.confidence = decision.sql_score - decision.nosql_score
           \/ decision.confidence = decision.nosql_score - decision.sql_score

\* C4 witness: a tie with a positive score, resolved to nosql
C4_Witness ==
    /\ Decided
    /\ decision.sql_score = decision.nosql_score
    /\ decision.sql_score > 0
    /\ decision.decision = "nosql"
    /\ decision.confidence = 0


\* C5: Scenario A analysis: the array of two flat objects with keys id, name,
\* order_id is tabular and uniform, has nesting_depth 0 and exactly one
\* relationship candidate, on order_id with inferred_table order.
C5_ScenarioAAnalysis ==
    (Analyzed /\ data = ScenarioA) =>
        /\ analysis.is_tabular
        /\ analysis.is_uniform
        /\ analysis.nesting_depth = 0
        /\ Len(analysis.relationship_candidates) = 1
        /\ analysis.relationship_candidates[1].field = "order_id"
        /\ analysis.relationship_candidates[1].inferred_table = "order"

\* C6: Scenario A decision without hints: sql_score 11, nosql_score 0,
\* backend sql, confidence 11.
C6_ScenarioADecision ==
    (Decided /\ data = ScenarioA /\ ~metadata.present) =>
        /\ decision.sql_score = 11
        /\ decision.nosql_score = 0
        /\ decision.decision = "sql"
        /\ decision.confidence = 11

\* the decision the pipeline takes on v without any hint
DecisionWithoutHint(v) == decide(analyze_json_structure(v, NoMetadata))
DecisionWithHint(v) == decide(analyze_json_structure(v, EvolvingHint))

\* C7 as stated: the evolving hint sets schema_evolution_expected and, on an
\* otherwise tabular uniform array of objects, can flip the decision: some
\* tabular uniform array is decided sql without the hint and nosql with it.
C7_HintCanFlip ==
    (Decided /\ metadata = EvolvingHint /\ IsArrayOfObjects(data) /\ analysis.is_tabular) =>
        /\ Get(analysis, "schema_evolution_expected", FALSE)
        /\ \E n \in 1..MaxObjs : \E c \in [1..n -> ObjSpecs] :
              LET v == List([i \in 1..n |-> MkObj(c[i])])
                  a == analyze_json_structure(v, EvolvingHint)
              IN /\ a.is_tabular /\ a.is_uniform
                 /\ DecisionWithoutHint(v).decision = "sql"
                 /\ DecisionWithHint(v).decision = "nosql"

\* C7 amended: on a tabular uniform array of objects a hint whose description
\* contains 'evolving' or 'schema_changes' (in any case, and nothing else)
\* sets schema_evolution_expected, adds exactly 3 to nosql_score and nothing
\* to sql_score, and the decision is sql both without and with the hint.
C7_HintAddsThreeNeverFlips ==
    (Decided /\ metadata \in EvolutionHints /\ IsArrayOfObjects(data) /\ analysis.is_tabular) =>
        /\ analysis.is_uniform
        /\ Get(analysis, "schema_evolution_expected", FALSE)
        /\ decision.nosql_score = DecisionWithoutHint(data).nosql_score + 3
        /\ decision.sql_score = DecisionWithoutHint(data).sql_score
        /\ DecisionWithoutHint(data).decision = "sql"
        /\ decision.decision = "sql"

\* C7 witness: Scenario A decided under a mixed-case schema_changes hint
C7_Witness ==
    /\ Decided
    /\ metadata = SchemaChangesHint
    /\ data = ScenarioA
    /\ analysis.is_tabular
    /\ decision.nosql_score = 4

\* the key set of the i-th element of the input array
ElemKeys(i) == Keys(data.items[i])

\* C8: for a non-empty array of objects, required_fields is exactly the set of
\* keys present in every element, optional_fields is the rest of all_keys, and
\* when all elements have the same key set required_fields is that set and
\* optional_fields is empty.
C8_RequiredOptionalPartition ==
    (Analyzed /\ IsArrayOfObjects(data)) =>
        LET n == Len(data.items)
            union == UNION {ElemKeys(i) : i \in 1..n}
            everywhere == {k \in union : \A i \in 1..n : k \in ElemKeys(i)}
        IN /\ analysis.all_keys = union
           /\ analysis.required_fields = everywhere
           /\ analysis.optional_fields = union \ everywhere
           /\ analysis.required_fields \cap analysis.optional_fields = {}
           /\ analysis.required_fields \cup analysis.optional_fields = analysis.all_keys
           /\ (\A i \in 1..n : ElemKeys(i) = ElemKeys(1)) =>
                  /\ analysis.required_fields = ElemKeys(1)
                  /\ analysis.optional_fields = {}

\* C8 witness: a non-uniform array with both required and optional keys
C8_Witness ==
    /\ Analyzed
    /\ IsArrayOfObjects(data)
    /\ Len(data.items) > 1
    /\ analysis.required_fields # {}
    /\ analysis.optional_fields # {}

\* the inputs infer_schema accepts: array of objects, single object, CSV, XML
AcceptedInput ==
    \/ file_type = "json" /\ (IsArrayOfObjects(data) \/ IsDict(data))
    \/ file_type \in {"csv", "xml"}

\* C9: for every accepted value and file type the inferred schema contains
\* exactly one table of type primary.
C9_ExactlyOnePrimary ==
    (Inferred /\ AcceptedInput) =>
        Cardinality({i \in 1..Len(Tables(schema)) : Tables(schema)[i].type = "primary"}) = 1

\* C10: field names are unique within every table of an inferred schema,
\* junction and related tables included.
C10_FieldNamesUnique ==
    Inferred =>
        \A t \in 1..Len(Tables(schema)) :
            LET fields == Tables(schema)[t].fields
            IN \A i, j \in 1..Len(fields) : fields[i].name = fields[j].name => i = j

(***************************************************************************)
(* Properties of the generated artifacts and of storage                    *)
(***************************************************************************)
\* the steps of an upload that follow schema inference
SchemaInferred == pc \in {"inferred", "generated", "stored", "recorded", "done"}
Generated == pc \in {"generated", "stored", "recorded", "done"}
Stored == pc \in {"stored", "recorded", "done"}
Returned == pc = "done"

HasSqlArtifact == Generated /\ "sql_schema" \in DOMAIN result
HasNoSqlArtifact == Generated /\ "nosql_schema" \in DOMAIN result

\* the create_table statements of the SQL artifact
CreateStatements ==
    SelectSeq(result.sql_schema.sql_statements, LAMBDA s : s.type = "create_table")

\* C11: the names of the tables of an inferred schema are pairwise distinct,
\* and so are the table names of the create_table statements of the SQL
\* artifact generated from it (a nested field whose table would take a name
\* already in use gets a disambiguating suffix).
C11_TableNamesDistinct ==
    /\ SchemaInferred =>
          \A i, j \in 1..Len(Tables(schema)) :
              Tables(schema)[i].name = Tables(schema)[j].name => i = j
    /\ HasSqlArtifact =>
          \A i, j \in 1..Len(CreateStatements) :
              CreateStatements[i].table = CreateStatements[j].table => i = j

\* C12: in the statement list of the SQL artifact every create_table
\* statement precedes every create_index and every add_foreign_key statement,
\* every table of the schema has its create_table statement, and so each index
\* or foreign key follows the creation of its own table and of every table of
\* the schema it can reference.
C12_TablesBeforeIndexesAndKeys ==
    HasSqlArtifact =>
        LET s == result.sql_schema.sql_statements
            later == {"create_index", "add_foreign_key"}
        IN /\ \A i, j \in 1..Len(s) :
                  (s[i].type = "create_table" /\ s[j].type \in later) => i < j
           /\ \A j \in 1..Len(s) :
                  s[j].type \in later =>
                      \E i \in 1..(j - 1) :
                          s[i].type = "create_table" /\ s[i].table = s[j].table
           /\ \A t \in 1..Len(Tables(schema)) :
                  \E i \in 1..Len(s) :
                      s[i].type = "create_table" /\ s[i].table = Tables(schema)[t].name
           /\ result.sql_schema.execution_order = [i \in 1..Len(s) |-> s[i].sql]

\* C12 witness: an artifact with two tables, an index and a foreign key
C12_Witness ==
    /\ HasSqlArtifact
    /\ LET s == result.sql_schema.sql_statements
       IN /\ Cardinality({i \in 1..Len(s) : s[i].type = "create_table"}) >= 2
          /\ \E i \in 1..Len(s) : s[i].type = "create_index"
          /\ \E i \in 1..Len(s) : s[i].type = "add_foreign_key"

\* C13: in every table of an inferred schema (primary, junction and related)
\* each field marked is_primary_key has a unique index and each field marked
\* is_foreign_key has a non-unique index in the table's indexes list.
C13_KeysAreIndexed ==
    Inferred =>
        \A t \in 1..Len(Tables(schema)) :
            LET table == Tables(schema)[t]
                indexes == Get(table, "indexes", <<>>)
                indexed(f, unique) ==
                    \E i \in 1..Len(indexes) :
                        indexes[i].fields = <<f.name>> /\ indexes[i].unique = unique
            IN \A k \in 1..Len(table.fields) :
                   /\ table.fields[k].is_primary_key => indexed(table.fields[k], TRUE)
                   /\ table.fields[k].is_foreign_key => indexed(table.fields[k], FALSE)

\* C14: the indexes list of every generated document-store artifact is
\* empty, and store_in_mongodb creates no index on the collection.
C14_NoIndexCreated ==
    /\ HasNoSqlArtifact => result.nosql_schema.indexes = <<>>
    /\ created_indexes = <<>>
    /\ (Stored /\ "data_storage" \in DOMAIN result) =>
           Get(result.data_storage, "indexes_created", <<>>) = <<>>

\* C14 witness: an array whose primary table has key fields was stored in MongoDB
C14_Witness ==
    /\ Stored
    /\ HasNoSqlArtifact
    /\ Get(result.data_storage, "storage", "") = "mongodb"
    /\ matching(collection, FileId) # {}
    /\ Len(Tables(schema)) > 0
    /\ \E k \in 1..Len(Tables(schema)[1].fields) : Tables(schema)[1].fields[k].is_foreign_key

\* C15: the document_structure of the document-store artifact types each
\* field of the primary table by string->string, integer or float->number,
\* boolean->boolean, null->null, object->object, array->array applied to the
\* types observed for the field.
C15_DocumentStructureTypes ==
    (HasNoSqlArtifact /\ IsArrayOfObjects(data)) =>
        LET properties == result.nosql_schema.document_structure.properties
            fields == Tables(schema)[1].fields
        IN \A k \in 1..Len(fields) :
               LET observed == {python_type_to_nosql_type(t) :
                                   t \in analysis.key_types[fields[k].name]}
               IN /\ fields[k].name \in DOMAIN properties
                  /\ Cardinality(observed) = 1 =>
                         properties[fields[k].name].bsonType \in observed

\* the documents of a file_id that carry a manifest
ManifestDocs(f) ==
    {i \in matching(collection, f) : "schema_manifest" \in DOMAIN collection[i]}

\* C16: after any sequence of save_manifest calls the store holds at most one
\* document, and so at most one manifest, per file_id; get_manifest returns
\* the manifest of the most recent successful save for the file_id in full
\* (its file_id, schema, storage_backend and an empty history) and nothing
\* for a file_id that was never saved.
C16_ManifestUpsert ==
    \A f \in FileIds :
        /\ Cardinality(matching(collection, f)) <= 1
        /\ Cardinality(ManifestDocs(f)) <= 1
        /\ get_manifest(collection, mongo_available, f) = saved[f]
        /\ saved[f] # Nil =>
               /\ get_manifest(collection, mongo_available, f).file_id = f
               /\ get_manifest(collection, mongo_available, f).history = <<>>

\* C16 witness: every caller has made all its calls, both files have a
\* manifest (so one was overwritten), one of them in a document that existed
\* before
C16_Witness ==
    /\ \A p \in Procs : savers[p].left = 0 /\ savers[p].pc = "idle"
    /\ MaxSaves > 1
    /\ \A f \in FileIds : Cardinality(ManifestDocs(f)) = 1
    /\ \E i \in 1..Len(collection) :
           "data" \in DOMAIN collection[i] /\ "schema_manifest" \in DOMAIN collection[i]

\* C17: when the manifest cannot be saved (the store is unavailable or the
\* write raises) the upload still returns success with the inferred schema
\* and the generated artifact, and the stored manifests are what they were:
\* none for this upload, the earlier upload's unchanged.
C17_ManifestFailureNonFatal ==
    (Returned /\ "manifest" \notin DOMAIN result) =>
        /\ result.success
        /\ schema = infer_schema(data, file_type, analysis)
        /\ "sql_schema" \in DOMAIN result \/ "nosql_schema" \in DOMAIN result
        /\ ManifestDocs(FileId) = {}
        /\ get_manifest(collection, TRUE, "f2") = PriorManifest
        /\ saved[FileId] = Nil

\* C17 witness: the store is available, the data was stored, and the manifest
\* write raised
C17_Witness ==
    /\ Returned
    /\ "manifest" \notin DOMAIN result
    /\ mongo_available
    /\ result.success
    /\ result.data_storage.success
    /\ Len(Tables(schema)) > 0

\* the callers whose one call has returned success for file_id f
Writers(f) ==
    {p \in Procs : /\ savers[p].pc = "idle"
                   /\ savers[p].left = 0
                   /\ savers[p].manifest.file_id = f
                   /\ savers[p].result.success}

\* C18: when the two callers have each saved a manifest for the same
\* file_id, in whatever order their steps interleaved, the store holds
\* exactly one manifest for it, equal in full to the manifest of one of the
\* two calls: the one applied last (a caller that wrote while the other was
\* still in flight is the one overwritten).
C18_LastWriterWins ==
    \A f \in FileIds :
        Cardinality(Writers(f)) = 2 =>
            LET stored == get_manifest(collection, mongo_available, f)
            IN /\ Cardinality(ManifestDocs(f)) = 1
               /\ \E p \in Procs : stored = savers[p].manifest
               /\ stored = saved[f]
               /\ \A p \in Procs :
                      savers[p].raced =>
                          \E q \in Procs \ {p} : stored = savers[q].manifest

\* C18 witness: two calls for one file_id with different schemas and
\* backends overlapped and both returned success
C18_Witness ==
    \E f \in FileIds :
        /\ Cardinality(Writers(f)) = 2
        /\ savers["p1"].manifest.schema # savers["p2"].manifest.schema
        /\ savers["p1"].manifest.storage_backend # savers["p2"].manifest.storage_backend
        /\ savers["p1"].raced
        /\ get_manifest(collection, mongo_available, f) = savers["p2"].manifest

\* the relational store rejected the insertion of this upload
SqlRejected == Stored /\ "success" \in DOMAIN sql_result /\ ~sql_result.success

\* C19: whenever the relational store rejects the insertion (no client, no
\* user_id, or a failed insert) the document-store artifact is generated from
\* the schema already inferred, analysis and schema are what steps 2 and 4
\* produced, the data goes through the document path, and the backend in the
\* result and in the saved manifest is nosql.
C19_FallbackToDocumentStore ==
    SqlRejected =>
        /\ storage_backend = "nosql"
        /\ result.storage_backend = "nosql"
        /\ "nosql_schema" \in DOMAIN result
        /\ result.nosql_schema = generate_nosql_schema(schema)
        /\ analysis = analyze_json_structure(data, metadata)
        /\ schema = infer_schema(data, file_type, analysis)
        /\ Get(result.data_storage, "storage", "mongodb") = "mongodb"
        /\ result.data_storage.success =>
               \E i \in matching(collection, FileId) :
                   /\ collection[i].data = data
                   /\ collection[i].schema = result.nosql_schema
        /\ (Returned /\ "manifest" \in DOMAIN result) =>
               /\ get_manifest(collection, mongo_available, FileId).storage_backend = "nosql"
               /\ get_manifest(collection, mongo_available, FileId).schema = schema

\* C19 witness: an insert was rejected, the data went to MongoDB and the
\* manifest was saved
C19_Witness ==
    /\ SqlRejected
    /\ Returned
    /\ sql_result.error = "insert failed"
    /\ structured_data = <<>>
    /\ result.data_storage.success
    /\ "manifest" \in DOMAIN result
    /\ decision.decision = "sql"

\* the keys every analysis record carries
AnalysisKeys ==
    {"data_type", "is_array", "is_object", "is_primitive", "is_tabular", "is_uniform",
     "is_nested", "is_hierarchical", "nesting_depth", "has_arrays_in_objects",
     "has_repeated_structures", "relationship_candidates"}

C21_DepthWalkCapped ==
    Analyzed => analysis.nesting_depth <= 3

\* the types of the scalar values of JSON
ScalarTypes == {"str", "int", "float", "bool"}

\* the key is 'id' or ends in '_id', 'Id' or 'ID'
IdLike(k) == k = "id" \/ EndsWith(k, "_id") \/ EndsWith(k, "Id") \/ EndsWith(k, "ID")

\* the key with only its trailing id-suffix removed
TrailingIdStripped(k) ==
    IF EndsWith(k, "_id") THEN SubSeq(k, 1, Len(k) - 3)
    ELSE IF EndsWith(k, "Id") \/ EndsWith(k, "ID") THEN SubSeq(k, 1, Len(k) - 2)
    ELSE k

\* the types of the non-null values of key k among the first 50 elements
SampledTypes(v, k) ==
    LET sample == Take(v.items, RelationshipSample)
    IN {sample[i].fields[k].t : i \in {j \in 1..Len(sample) : k \in Keys(sample[j])}}
           \ {"NoneType"}

CandidateFields == {analysis.relationship_candidates[i].field :
                       i \in 1..Len(analysis.relationship_candidates)}

\* C22: for an array of objects a relationship candidate is emitted for a key
\* exactly when the key is 'id' or ends in '_id', 'Id' or 'ID' and all
\* non-null values among the first 50 elements share one scalar type; the
\* candidate's inferred_table is the key with only its trailing id-suffix
\* removed.
C22_RelationshipCandidates ==
    Analyzed /\ IsArrayOfObjects(data) =>
        /\ CandidateFields =
               {k \in analysis.all_keys :
                   /\ IdLike(k)
                   /\ Cardinality(SampledTypes(data, k)) = 1
                   /\ SampledTypes(data, k) \subseteq ScalarTypes}
        /\ \A i \in 1..Len(analysis.relationship_candidates) :
               analysis.relationship_candidates[i].inferred_table =
                   TrailingIdStripped(analysis.relationship_candidates[i].field)

\* the key is a field of the primary table of the schema
InPrimaryTable(sch, k) ==
    \E i \in 1..Len(Tables(sch)) :
        /\ Tables(sch)[i].type = "primary"
        /\ \E j \in 1..Len(Tables(sch)[i].fields) : Tables(sch)[i].fields[j].name = k

\* the schema holds the Junction or the Related table derived from the key
HasDerivedTable(sch, k) ==
    \E i \in 1..Len(Tables(sch)) :
        \/ Tables(sch)[i].type = "junction" /\ Tables(sch)[i].name = "main_data_" \o k
        \/ Tables(sch)[i].type = "related" /\ Tables(sch)[i].name = k

\* C26: no key is lost by inference: for every non-empty array of objects,
\* each key in all_keys is represented in the inferred schema either as a
\* field of the primary table (non-nested keys) or as a Junction or Related
\* table derived from it (keys in nested_fields), whatever the first sampled
\* value of the key is and wherever in the array the key first occurs.
C26_NoKeyLost ==
    Inferred /\ IsArrayOfObjects(data) =>
        \A k \in analysis.all_keys :
            IF k \in analysis.nested_fields
            THEN HasDerivedTable(schema, k)
            ELSE InPrimaryTable(schema, k)

(***************************************************************************)
(* Properties of routing and of batch uploads                              *)
(***************************************************************************)
Routed == pc \in {"routed", "parsed", "done"} /\ file_path \in RoutedPaths

C30_RoutedFilesAreParsed ==
    (Routed /\ pc \in {"parsed", "done"}) => (pc = "parsed" /\ result.success)

\* C24: create_batch returns the generated batch identifier (a non-null
\* string equal to the batch_id of the record it built) in every case,
\* whether the batch store is connected and the record was persisted or not,
\* so that update_batch_progress, complete_batch and get_batch_status address
\* the record that was created.
C24_CreateBatchReturnsId ==
    handler_pc # "idle" =>
        /\ batch_id = NewBatchId
        /\ \A i \in 1..Len(batches_collection.docs) :
               batches_collection.docs[i].batch_id = batch_id
        /\ (handler_pc = "responded" /\ Len(batches_collection.docs) > 0) =>
               /\ batch_status # Nil
               /\ batch_status.status = "completed"
               /\ batch_status.processed_files = Len(tasks)

\* the files of the batch that are being processed
InFlight == {i \in DOMAIN tasks : tasks[i].pc \in InFlightSteps}

AllFilesDone == \A i \in DOMAIN tasks : tasks[i].pc = "done"

C29_ProcessorsConstructedOnce ==
    \A p \in Pipelines : constructions[p] <= 1

\* C27: after a run of process_structured_data that ends with
\* storage_backend = 'nosql', including a run that fell back after the
\* relational insert failed part-way through a multi-batch array, no row
\* carrying the run's file_id remains in the table structured_data.
C27_OneBackendOnly ==
    (Returned /\ storage_backend = "nosql") =>
        \A i \in 1..Len(structured_data) : structured_data[i].file_id # FileId

\* the run stored its data through store_in_mongodb
StoredInMongo ==
    /\ "data_storage" \in DOMAIN result
    /\ Get(result.data_storage, "storage", "") = "mongodb"

\* C28: in a run of process_structured_data whose data is stored through
\* store_in_mongodb, with the document store available and no write failing
\* for a reason of the driver, the metadata insert of step 10 (insert_media)
\* and the manifest save of step 11 both succeed, and the record of the
\* file_id ends up holding data, metadata and schema_manifest.
C28_DocumentPathWritesSucceed ==
    (Returned /\ mongo_available /\ write_errors = {} /\ StoredInMongo) =>
        /\ "db_info" \in DOMAIN result
        /\ "manifest" \in DOMAIN result
        /\ find_one(collection, FileId) # Nil
        /\ {"data", "metadata", "schema_manifest"} \subseteq
               DOMAIN find_one(collection, FileId)

====
